---- MODULE Spec2Model ----
(***************************************************************************)
(* Model of the mean-reversion paper-trading bot: the Portfolio / Trade    *)
(* ledger of simulator.py and the strategy loop of app.py that drives it.  *)
(*                                                                         *)
(* Number representation.  The program computes in binary floating point   *)
(* and rounds with round(x, n).  The model computes the same expressions   *)
(* exactly in decimal fixed point:                                         *)
(*   prices, shares, money (capital, bet_size, pnl) : units of 10^-4       *)
(*   fees (estimate_fee rounds to 6 places)         : units of 10^-6       *)
(*   unrounded products (proceeds)                  : units of 10^-8,      *)
(*        kept as a pair [hi, lo] = hi * 10^-4 + lo * 10^-8                *)
(* round(x, n) is round-half-to-even on the exact value, except for        *)
(* round(shares * 0.5, 4), whose decimal ties are systematic (odd last     *)
(* digit) and are decided as the float does (RoundHalfOf).  Products that  *)
(* do not fit a machine integer are computed on base-10^4 limbs.           *)
(* An Optional value is a sequence: <<>> is None, <<v>> is the value v.    *)
(***************************************************************************)
EXTENDS Integers, Sequences, FiniteSets, TLC

\* ---------------------------------------------------------------------
\* Bounds of the model
\* ---------------------------------------------------------------------
MaxTrades == 1
MaxPartialCalls == 2
MaxLifecycles == 2
BurstCalls == 6100

\* ---------------------------------------------------------------------
\* Program constants (simulator.py), in the units above
\* ---------------------------------------------------------------------
Scale == 10^4

INITIAL_CAPITAL == 100 * Scale
TRADE_PCT == 400
MIN_ENTRY_PRICE == 1500
MAX_ENTRY_PRICE == 3500
MAX_ENTRY_SPREAD == 800
MIN_SECS_TO_ENTER == 60
MAX_SECS_TO_ENTER == 240
TARGET_PRICE == 4700
PARTIAL_EXIT_PCT == 5000
SL_PRICE_ABS == 1000
FEE_RATE == 625
MIN_BET == 1 * Scale
LATE_SECS == 30

\* strategy_core.py and app.py
TOP_LEVELS == 15
DEPTH_LEVELS == 3
SHOWN_LEVELS == 8
WINDOW_SIZE == 6
OBI_THRESHOLD == 1800
MOM_SCALE == 67

None == <<>>
Some(v) == <<v>>
OrZero(x) == IF x = None THEN 0 ELSE x[1]

\* ---------------------------------------------------------------------
\* Exact arithmetic
\* ---------------------------------------------------------------------

\* round-half-to-even of n / d, d > 0, n any integer
RoundDiv(n, d) ==
    LET q == n \div d
        r == n % d
    IN  IF 2 * r < d THEN q
        ELSE IF 2 * r > d THEN q + 1
        ELSE IF q % 2 = 0 THEN q ELSE q + 1

\* non-negative big integers as little-endian sequences of base-10^4 limbs
RECURSIVE BOfInt(_)
BOfInt(n) == IF n = 0 THEN <<>> ELSE <<n % Scale>> \o BOfInt(n \div Scale)

RECURSIVE BToInt(_)
BToInt(x) == IF x = <<>> THEN 0 ELSE x[1] + Scale * BToInt(Tail(x))

RECURSIVE BMulSmall(_, _, _)
BMulSmall(x, m, c) ==
    IF x = <<>> THEN (IF c = 0 THEN <<>> ELSE <<c>>)
    ELSE LET t == x[1] * m + c
         IN  <<t % Scale>> \o BMulSmall(Tail(x), m, t \div Scale)

RECURSIVE BAdd(_, _, _)
BAdd(x, y, c) ==
    IF x = <<>> /\ y = <<>> THEN (IF c = 0 THEN <<>> ELSE <<c>>)
    ELSE LET a == IF x = <<>> THEN 0 ELSE x[1]
             b == IF y = <<>> THEN 0 ELSE y[1]
             t == a + b + c
         IN  <<t % Scale>> \o BAdd(IF x = <<>> THEN <<>> ELSE Tail(x),
                                   IF y = <<>> THEN <<>> ELSE Tail(y),
                                   t \div Scale)

RECURSIVE BMul(_, _)
BMul(x, y) ==
    IF y = <<>> THEN <<>>
    ELSE BAdd(BMulSmall(x, y[1], 0), <<0>> \o BMul(x, Tail(y)), 0)

BLimb(x, i) == IF i <= Len(x) THEN x[i] ELSE 0
BDrop(x, k) == IF Len(x) <= k THEN <<>> ELSE SubSeq(x, k + 1, Len(x))

\* round-half-to-even of x / 10^(4k), k >= 1
BRound(x, k) ==
    LET high == BToInt(BDrop(x, k))
        top  == BLimb(x, k)
        rest == \E i \in 1..(k - 1) : BLimb(x, i) # 0
        half == Scale \div 2
    IN  IF top > half \/ (top = half /\ rest) THEN high + 1
        ELSE IF top = half /\ high % 2 = 1 THEN high + 1
        ELSE high

\* an exact amount with 8 decimals: hi * 10^-4 + lo * 10^-8 (lo may be
\* outside 0..Scale-1 between operations; A8Round and A8Norm normalise)
A8(h, l) == [hi |-> h, lo |-> l]
A8Norm(a) == A8(a.hi + (a.lo \div Scale), a.lo % Scale)
A8Sub(a, b) == A8(a.hi - b.hi, a.lo - b.lo)
A8Add(a, b) == A8(a.hi + b.hi, a.lo + b.lo)
\* product of two non-negative 4-decimal numbers
A8Mul(x, y) ==
    LET p == BMul(BOfInt(x), BOfInt(y))
    IN  A8(BToInt(BDrop(p, 1)), BLimb(p, 1))
A8OfMoney(m) == A8(m, 0)
\* a 6-decimal fee times a 4-decimal fraction whose product has at most
\* 8 decimals (the fractions used are 0.5 and 1.0)
A8OfFeeFrac(f, frac) == A8(0, (f * frac) \div 100)
A8ToBig(a) == LET n == A8Norm(a) IN <<n.lo>> \o BOfInt(n.hi)
\* round(a, 4)
A8Round(a) ==
    LET n == A8Norm(a)
        half == Scale \div 2
    IN  IF n.lo < half THEN n.hi
        ELSE IF n.lo > half THEN n.hi + 1
        ELSE IF n.hi % 2 = 0 THEN n.hi ELSE n.hi + 1

\* The stored float nearest to the decimal n * 10^-4 (0 < n < 2^31) has a
\* 53-bit mantissa M = round(n * 2^k / 10^4) with 2^52 <= M < 2^53.  Its
\* rounding direction is read off the remainder of n * 2^k modulo 10^4, and
\* the parity of the quotient off the remainder modulo 2 * 10^4.
MantissaShift(n) ==
    IF n >= Scale
    THEN 52 - (CHOOSE e \in 0..17 :
                  /\ 2^e * Scale <= n
                  /\ (e = 17 \/ n < 2^(e + 1) * Scale))
    ELSE 52 + (CHOOSE j \in 1..14 : Scale <= n * 2^j /\ n * 2^j < 2 * Scale)

\* 2^k modulo 2 * 10^4, for 0 <= k <= 66
Pow2Mod(k) ==
    LET m == 2 * Scale
        a == IF k < 22 THEN k ELSE 22
        b == IF k - a < 22 THEN k - a ELSE 22
        c == k - a - b
    IN  ((((2^a % m) * (2^b % m)) % m) * (2^c % m)) % m

\* sign of (float nearest to n * 10^-4) - n * 10^-4
FloatErrSign(n) ==
    IF n = 0 THEN 0
    ELSE LET m    == 2 * Scale
             rem  == ((n % m) * Pow2Mod(MantissaShift(n))) % m
             r    == rem % Scale
             q0   == rem \div Scale
             half == Scale \div 2
         IN  IF r = 0 THEN 0
             ELSE IF r < half THEN -1
             ELSE IF r > half THEN 1
             ELSE IF q0 = 0 THEN -1 ELSE 1

\* round(x * 0.5, 4) for the float x nearest to n * 10^-4: halving a float
\* is exact, so an odd n is a decimal tie that the float's own
\* representation error decides (half-to-even when x is exact)
RoundHalfOf(n) ==
    LET fl == n \div 2
        e  == FloatErrSign(n)
    IN  IF n % 2 = 0 THEN fl
        ELSE IF e > 0 THEN fl + 1
        ELSE IF e < 0 THEN fl
        ELSE IF fl % 2 = 0 THEN fl ELSE fl + 1

\* round-half-to-even of i + n / d for integers i, n >= 0 and d > 0
RoundDivPlus(i, n, d) ==
    LET q == i + (n \div d)
        r == n % d
    IN  IF 2 * r < d THEN q
        ELSE IF 2 * r > d THEN q + 1
        ELSE IF q % 2 = 0 THEN q ELSE q + 1

\* long division of a big integer by d (0 < d < 2 * 10^8), one decimal digit
\* at a time: quotient and remainder
DivDigit(st, digit, d) ==
    LET r2 == st.r * 10 + digit
    IN  [q |-> st.q * 10 + (r2 \div d), r |-> r2 % d]

RECURSIVE BDivMod(_, _)
BDivMod(x, d) ==
    IF x = <<>> THEN [q |-> 0, r |-> 0]
    ELSE LET hi == BDivMod(Tail(x), d)
             l  == x[1]
             s3 == DivDigit(hi, l \div 1000, d)
             s2 == DivDigit(s3, (l \div 100) % 10, d)
             s1 == DivDigit(s2, (l \div 10) % 10, d)
         IN  DivDigit(s1, l % 10, d)

\* round-half-to-even of x / d
BDivRound(x, d) ==
    LET qr == BDivMod(x, d)
    IN  IF 2 * qr.r < d THEN qr.q
        ELSE IF 2 * qr.r > d THEN qr.q + 1
        ELSE IF qr.q % 2 = 0 THEN qr.q ELSE qr.q + 1

\* ---------------------------------------------------------------------
\* Fee model and Trade (simulator.py)
\* ---------------------------------------------------------------------

\* estimate_fee(price, usdc_amount): round(price * (1 - price) * FEE_RATE
\* * usdc_amount, 6); the amount is given exactly (8 decimals), the result
\* is in units of 10^-6.  8 + 4 + 8 = 20 decimals, times 100, drop 16.
estimate_fee(price, amount) ==
    LET rate == BMulSmall(BOfInt(price * (Scale - price)), FEE_RATE, 0)
        prod == BMul(rate, A8ToBig(amount))
    IN  BRound(BMulSmall(prod, 100, 0), 4)

NewTradeWithoutPostInit(id, direction, entry_price, shares, bet_size, secs_at_entry) ==
    [ id                 |-> id,
      direction          |-> direction,
      entry_price        |-> entry_price,
      shares             |-> shares,
      bet_size           |-> bet_size,
      secs_at_entry      |-> secs_at_entry,
      partial_exit_done  |-> FALSE,
      shares_remaining   |-> 0,
      partial_exit_price |-> None,
      partial_pnl        |-> None,
      entry_fee          |-> 0,
      exit_price         |-> None,
      exit_fee           |-> 0,
      pnl                |-> None,
      status             |-> "OPEN",
      exit_reason        |-> None ]

\* Trade(...) followed by __post_init__
NewTrade(id, direction, entry_price, shares, bet_size, secs_at_entry) ==
    [ id                 |-> id,
      direction          |-> direction,
      entry_price        |-> entry_price,
      shares             |-> shares,
      bet_size           |-> bet_size,
      secs_at_entry      |-> secs_at_entry,
      partial_exit_done  |-> FALSE,
      shares_remaining   |-> shares,
      partial_exit_price |-> None,
      partial_pnl        |-> None,
      entry_fee          |-> estimate_fee(entry_price, A8OfMoney(bet_size)),
      exit_price         |-> None,
      exit_fee           |-> 0,
      pnl                |-> None,
      status             |-> "OPEN",
      exit_reason        |-> None ]

should_partial_exit_unguarded(t, current_price) == current_price >= TARGET_PRICE

should_partial_exit(t, current_price) ==
    IF t.partial_exit_done THEN FALSE
    ELSE current_price >= TARGET_PRICE

\* a stop that is armed only until the partial stage has run
should_sl_before_partial(t, current_price) ==
    ~t.partial_exit_done /\ current_price <= SL_PRICE_ABS

should_sl(t, current_price) == current_price <= SL_PRICE_ABS

\* shares sold by the partial stage: round(shares * PARTIAL_EXIT_PCT, 4)
shares_to_sell(t) == RoundHalfOf(t.shares)

do_partial_exit(t, exit_price) ==
    LET sts      == shares_to_sell(t)
        proceeds == A8Mul(sts, exit_price)
        fee      == estimate_fee(exit_price, proceeds)
        efp      == A8OfFeeFrac(t.entry_fee, PARTIAL_EXIT_PCT)
        pnl      == A8Round(A8Sub(A8Sub(A8Sub(proceeds,
                               A8Mul(t.bet_size, PARTIAL_EXIT_PCT)),
                               efp), A8(0, fee * 100)))
    IN  [t EXCEPT !.partial_exit_done  = TRUE,
                  !.partial_exit_price = Some(exit_price),
                  !.partial_pnl        = Some(pnl),
                  !.shares_remaining   = t.shares - sts]

\* a remainder that is always the one left by the partial stage
RemainingFracAfterPartial(t) == Scale - PARTIAL_EXIT_PCT

\* fraction of the bet and of the entry fee still carried by the trade
RemainingFrac(t) == IF t.partial_exit_done THEN Scale - PARTIAL_EXIT_PCT ELSE Scale
SharesHeld(t) == IF t.partial_exit_done THEN t.shares_remaining ELSE t.shares

StatusOf(pnl) == IF pnl > 0 THEN "WIN" ELSE "LOSS"

close_binary(t, won, exit_price, exit_reason) ==
    LET shares    == SharesHeld(t)
        bet_rem   == A8Mul(t.bet_size, RemainingFrac(t))
        ef_rem    == A8OfFeeFrac(t.entry_fee, RemainingFrac(t))
        proceeds  == A8Mul(shares, Scale)
        exit_fee  == IF won THEN estimate_fee(Scale, proceeds) ELSE 0
        final_pnl == IF won
                     THEN A8Round(A8Sub(A8Sub(A8Sub(proceeds, bet_rem), ef_rem),
                                        A8(0, exit_fee * 100)))
                     ELSE A8Round(A8Sub(A8Sub(A8(0, 0), bet_rem), ef_rem))
        pnl       == OrZero(t.partial_pnl) + final_pnl
    IN  [t EXCEPT !.exit_price  = Some(exit_price),
                  !.exit_reason = Some(exit_reason),
                  !.exit_fee    = exit_fee,
                  !.pnl         = Some(pnl),
                  !.status      = StatusOf(pnl)]

close_market(t, exit_price, exit_reason) ==
    LET shares    == SharesHeld(t)
        bet_rem   == A8Mul(t.bet_size, RemainingFrac(t))
        ef_rem    == A8OfFeeFrac(t.entry_fee, RemainingFrac(t))
        proceeds  == A8Mul(shares, exit_price)
        exit_fee  == estimate_fee(exit_price, proceeds)
        final_pnl == A8Round(A8Sub(A8Sub(A8Sub(proceeds, bet_rem), ef_rem),
                                   A8(0, exit_fee * 100)))
        pnl       == OrZero(t.partial_pnl) + final_pnl
    IN  [t EXCEPT !.exit_price  = Some(exit_price),
                  !.exit_reason = Some(exit_reason),
                  !.exit_fee    = exit_fee,
                  !.pnl         = Some(pnl),
                  !.status      = StatusOf(pnl)]

unrealized_pnl(t, current_price) ==
    LET shares   == SharesHeld(t)
        bet_rem  == A8Mul(t.bet_size, RemainingFrac(t))
        ef_rem   == A8OfFeeFrac(t.entry_fee, RemainingFrac(t))
        proceeds == A8Mul(shares, current_price)
        exit_fee == estimate_fee(current_price, proceeds)
    IN  A8Round(A8Sub(A8Sub(A8Sub(A8Add(A8OfMoney(OrZero(t.partial_pnl)), proceeds),
                                  bet_rem), ef_rem), A8(0, exit_fee * 100)))

\* ---------------------------------------------------------------------
\* Portfolio (simulator.py)
\* ---------------------------------------------------------------------
VARIABLES
    capital,          \* Portfolio.capital
    initial_capital,  \* Portfolio.initial_capital
    active_trade,     \* Portfolio.active_trade: None or Some(trade)
    closed_trades,    \* Portfolio.closed_trades
    pnl_history,      \* Portfolio.pnl_history
    trade_counter,    \* Portfolio._trade_counter
    op,               \* the Portfolio method called last
    args,             \* its arguments (recorded for consider_entry)
    ret,              \* its return value
    entry_capital,    \* capital read by consider_entry when it opened the latest trade
    partial_calls     \* apply_partial_exit calls made on a trade so far

pvars == <<capital, initial_capital, active_trade, closed_trades,
           pnl_history, trade_counter>>

\* the strategy loop (app.py)
VARIABLES
    market_info,      \* None or Some([condition_id, up_price, down_price, has_end])
    last_market_id,   \* "" stands for None
    time_left,        \* seconds from now to the end date of the market last found
    cyc,              \* what the last loop iteration observed and did
    obi_window        \* obi_window: the deque of past combined_obi values

lvars == <<market_info, last_market_id, time_left, cyc, obi_window>>

\* the Portfolio object as one value
PF == [ capital         |-> capital,
        initial_capital |-> initial_capital,
        active_trade    |-> active_trade,
        closed_trades   |-> closed_trades,
        pnl_history     |-> pnl_history,
        trade_counter   |-> trade_counter ]

\* ---- consider_entry -------------------------------------------------------

EntryBlockedByCapitalOnly(pf) == pf.capital < MIN_BET

EntryBlocked(pf) == pf.active_trade # None \/ pf.capital < MIN_BET

TimeRejected(secs_left) ==
    \/ secs_left = None
    \/ secs_left[1] < MIN_SECS_TO_ENTER
    \/ secs_left[1] > MAX_SECS_TO_ENTER

InEntryZoneNoCeiling(p) == MIN_ENTRY_PRICE <= p

InEntryZone(p) == MIN_ENTRY_PRICE <= p /\ p <= MAX_ENTRY_PRICE

\* the cheap side: UP is looked at first
EntrySide(a) ==
    IF InEntryZone(a.up_price)
    THEN Some([direction |-> "UP", entry_price |-> a.up_price,
               entry_depth |-> a.entry_depth_up, bid_price |-> a.up_bid])
    ELSE IF InEntryZone(a.down_price)
    THEN Some([direction |-> "DOWN", entry_price |-> a.down_price,
               entry_depth |-> a.entry_depth_down, bid_price |-> a.down_bid])
    ELSE None

\* (entry_price - bid_price) / entry_price > MAX_ENTRY_SPREAD, cross-multiplied
SpreadRejected(entry_price, bid_price) ==
    /\ bid_price # None
    /\ bid_price[1] > 0
    /\ entry_price > 0
    /\ (entry_price - bid_price[1]) * Scale > MAX_ENTRY_SPREAD * entry_price

\* round(capital * trade_pct, 2)
BetSize(cap) == RoundDiv(cap * TRADE_PCT, 10^6) * 100

DepthUsable(entry_depth) == entry_depth # None /\ entry_depth[1].shares > 0

\* price and shares of the fill: the depth walk's when usable, else top of book
FillOf(side, bet_size) ==
    IF DepthUsable(side.entry_depth)
    THEN [entry_price |-> side.entry_depth[1].avg_price,
          shares      |-> side.entry_depth[1].shares]
    ELSE [entry_price |-> side.entry_price,
          shares      |-> RoundDiv(bet_size * Scale, side.entry_price)]

EntryAcceptReusingId(pf, side, fill, bet_size, secs_left) ==
    [pf EXCEPT !.capital       = pf.capital - bet_size,
               !.active_trade  = Some(NewTrade(pf.trade_counter + 1, side.direction,
                                               fill.entry_price, fill.shares,
                                               bet_size, secs_left))]

EntryAccept(pf, side, fill, bet_size, secs_left) ==
    [pf EXCEPT !.capital       = pf.capital - bet_size,
               !.trade_counter = pf.trade_counter + 1,
               !.active_trade  = Some(NewTrade(pf.trade_counter + 1, side.direction,
                                               fill.entry_price, fill.shares,
                                               bet_size, secs_left))]

RejectedWithIdConsumed(pf) ==
    [ret |-> FALSE, pf |-> [pf EXCEPT !.trade_counter = pf.trade_counter + 1]]

\* return False: nothing was assigned before it
Rejected(pf) == [ret |-> FALSE, pf |-> pf]

consider_entry(pf, a) ==
    LET reject == Rejected(pf)
    IN  IF EntryBlocked(pf) THEN reject
        ELSE IF TimeRejected(a.secs_left) THEN reject
        ELSE LET side == EntrySide(a)
             IN  IF side = None THEN reject
                 ELSE IF SpreadRejected(side[1].entry_price, side[1].bid_price) THEN reject
                 ELSE LET bet_size == BetSize(pf.capital)
                          fill     == FillOf(side[1], bet_size)
                      IN  IF ~InEntryZone(fill.entry_price) THEN reject
                          ELSE [ret |-> TRUE,
                                pf  |-> EntryAccept(pf, side[1], fill, bet_size,
                                                    a.secs_left[1])]

\* ---- exits -----------------------------------------------------------------

current_price_for_trade(pf, up_price, down_price) ==
    IF pf.active_trade = None THEN 0
    ELSE IF pf.active_trade[1].direction = "UP" THEN up_price ELSE down_price

\* the time-based exit looked at before the price-based ones
ExitReasonLateFirst(trade, current_price, secs_left) ==
    IF secs_left # None /\ secs_left[1] <= LATE_SECS
          /\ unrealized_pnl(trade, current_price) > 0 THEN Some("LATE")
    ELSE IF should_partial_exit(trade, current_price) THEN Some("PARTIAL_TP")
    ELSE IF should_sl(trade, current_price) THEN Some("SL")
    ELSE None

\* a time-based exit taken whatever the unrealized P&L
ExitReasonLateAtALoss(trade, current_price, secs_left) ==
    IF should_partial_exit(trade, current_price) THEN Some("PARTIAL_TP")
    ELSE IF should_sl(trade, current_price) THEN Some("SL")
    ELSE IF secs_left # None /\ secs_left[1] <= LATE_SECS THEN Some("LATE")
    ELSE None

ExitReason(trade, current_price, secs_left) ==
    IF should_partial_exit(trade, current_price) THEN Some("PARTIAL_TP")
    ELSE IF should_sl(trade, current_price) THEN Some("SL")
    ELSE IF secs_left # None /\ secs_left[1] <= LATE_SECS
            /\ unrealized_pnl(trade, current_price) > 0 THEN Some("LATE")
    ELSE None

check_exits(pf, up_price, down_price, secs_left) ==
    IF pf.active_trade = None THEN None
    ELSE ExitReason(pf.active_trade[1],
                    current_price_for_trade(pf, up_price, down_price), secs_left)

ExitPriceUsed(pf, up_price, down_price, exit_bid_price) ==
    IF exit_bid_price # None THEN exit_bid_price[1]
    ELSE current_price_for_trade(pf, up_price, down_price)

\* capital after the partial stage: half the bet plus the stage's P&L
PartialCredit(cap, trade, partial_pnl) ==
    cap + A8Round(A8Add(A8Mul(trade.bet_size, PARTIAL_EXIT_PCT), A8OfMoney(partial_pnl)))

apply_partial_exit(pf, up_price, down_price, exit_bid_price) ==
    IF pf.active_trade = None THEN [ret |-> None, pf |-> pf]
    ELSE LET cp    == ExitPriceUsed(pf, up_price, down_price, exit_bid_price)
             trade == do_partial_exit(pf.active_trade[1], cp)
         IN  [ret |-> trade.partial_pnl,
              pf  |-> [pf EXCEPT !.active_trade = Some(trade),
                                 !.capital = PartialCredit(pf.capital, trade,
                                                           trade.partial_pnl[1])]]

finalize_trade_keeping_active(pf, trade) ==
    [pf EXCEPT !.pnl_history   = Append(pf.pnl_history, pf.capital - pf.initial_capital),
               !.closed_trades = Append(pf.closed_trades, trade),
               !.active_trade  = Some(trade)]

finalize_trade(pf, trade) ==
    [pf EXCEPT !.pnl_history   = Append(pf.pnl_history, pf.capital - pf.initial_capital),
               !.closed_trades = Append(pf.closed_trades, trade),
               !.active_trade  = None]

\* the credit of the first, overridden definition of exit_at_market_price: the
\* remaining tranche's P&L is added twice
MarketCloseCreditFirstDefinition(cap, trade, pnl) ==
    LET once == A8Round(A8Add(A8OfMoney(cap + (pnl - OrZero(trade.partial_pnl))),
                              A8Mul(trade.bet_size, RemainingFrac(trade))))
    IN  once + (pnl - OrZero(trade.partial_pnl))

\* capital after a market-style close of the remaining tranche (the trade is
\* already closed and pnl is its total)
MarketCloseCredit(cap, trade, pnl) ==
    IF trade.partial_exit_done
    THEN A8Round(A8Add(A8OfMoney(cap + (pnl - OrZero(trade.partial_pnl))),
                       A8Mul(trade.bet_size, Scale - PARTIAL_EXIT_PCT)))
    ELSE cap + trade.bet_size + pnl

BinaryCloseCreditWithTotalPnl(cap, trade, pnl) ==
    A8Round(A8Add(A8OfMoney(cap + pnl), A8Mul(trade.bet_size, RemainingFrac(trade))))

\* capital after the binary resolution of the remaining tranche
BinaryCloseCredit(cap, trade, pnl) ==
    IF trade.partial_exit_done
    THEN A8Round(A8Add(A8OfMoney(cap + (pnl - OrZero(trade.partial_pnl))),
                       A8Mul(trade.bet_size, Scale - PARTIAL_EXIT_PCT)))
    ELSE cap + trade.bet_size + pnl

\* the definition in force: the second one of the class body
exit_at_market_price(pf, up_price, down_price, exit_reason, exit_bid_price) ==
    IF pf.active_trade = None THEN [ret |-> None, pf |-> pf]
    ELSE LET cp    == ExitPriceUsed(pf, up_price, down_price, exit_bid_price)
             trade == close_market(pf.active_trade[1], cp, exit_reason)
             cap   == MarketCloseCredit(pf.capital, trade, trade.pnl[1])
         IN  [ret |-> Some(trade),
              pf  |-> finalize_trade([pf EXCEPT !.capital = cap], trade)]

BinaryWon(trade, up_price, down_price, force_winner) ==
    IF force_winner # None THEN force_winner[1]
    ELSE IF trade.direction = "UP" THEN up_price >= Scale \div 2
    ELSE down_price >= Scale \div 2

\* a resolution that records a point of the P&L curve whether or not a trade
\* was open
close_trade_recording(pf, up_price, down_price, force_winner) ==
    [ret |-> None,
     pf  |-> [pf EXCEPT !.pnl_history =
                            Append(pf.pnl_history, pf.capital - pf.initial_capital),
                        !.active_trade = None]]

close_trade(pf, up_price, down_price, force_winner) ==
    IF pf.active_trade = None THEN [ret |-> None, pf |-> pf]
    ELSE LET won   == BinaryWon(pf.active_trade[1], up_price, down_price, force_winner)
             trade == close_binary(pf.active_trade[1], won,
                                   IF won THEN Scale ELSE 0, "EXPIRE")
             cap   == BinaryCloseCredit(pf.capital, trade, trade.pnl[1])
         IN  [ret |-> Some(trade),
              pf  |-> finalize_trade([pf EXCEPT !.capital = cap], trade)]

cancel_active_trade(pf) ==
    IF pf.active_trade = None THEN pf
    ELSE LET trade == [pf.active_trade[1] EXCEPT !.status = "CANCELLED",
                                                 !.exit_reason = Some("FORCED")]
         IN  [pf EXCEPT !.closed_trades = Append(pf.closed_trades, trade),
                        !.active_trade  = None]

\* ---- stats ------------------------------------------------------------------

get_unrealized(pf, up_price, down_price) ==
    IF pf.active_trade = None THEN 0
    ELSE unrealized_pnl(pf.active_trade[1],
                        current_price_for_trade(pf, up_price, down_price))

RECURSIVE RealizedPnl(_)
RealizedPnl(closed) ==
    IF closed = <<>> THEN 0
    ELSE OrZero(Head(closed).pnl) + RealizedPnl(Tail(closed))

CountClosed(closed, status) ==
    Cardinality({i \in 1..Len(closed) : closed[i].status = status})

\* the bet still committed to the active trade, as the equity line counts it
CommittedBet(pf) ==
    IF pf.active_trade = None THEN 0
    ELSE IF pf.active_trade[1].partial_exit_done
    THEN A8Round(A8Mul(pf.active_trade[1].bet_size, Scale - PARTIAL_EXIT_PCT))
    ELSE pf.active_trade[1].bet_size

\* the figures of the returned dict that are computed from the ledger
StatsDict(pf, up_price, down_price) ==
    [ capital        |-> pf.capital,
      equity         |-> pf.capital + CommittedBet(pf)
                            + get_unrealized(pf, up_price, down_price),
      realized_pnl   |-> RealizedPnl(pf.closed_trades),
      unrealized_pnl |-> get_unrealized(pf, up_price, down_price),
      total_pnl      |-> RealizedPnl(pf.closed_trades)
                            + get_unrealized(pf, up_price, down_price),
      total_trades   |-> Len(pf.closed_trades),
      wins           |-> CountClosed(pf.closed_trades, "WIN"),
      losses         |-> CountClosed(pf.closed_trades, "LOSS"),
      cancelled      |-> CountClosed(pf.closed_trades, "CANCELLED"),
      partial_exits  |-> Cardinality({i \in 1..Len(pf.closed_trades) :
                                         pf.closed_trades[i].partial_exit_done}) ]

\* a stats call that writes the equity it computed back into capital
stats_marking_to_market(pf, up_price, down_price) ==
    [ret |-> Some(StatsDict(pf, up_price, down_price)),
     pf  |-> [pf EXCEPT !.capital = StatsDict(pf, up_price, down_price).equity]]

\* stats(up_price, down_price): the dict, and the object it was called on
stats(pf, up_price, down_price) ==
    [ret |-> Some(StatsDict(pf, up_price, down_price)), pf |-> pf]

\* ---------------------------------------------------------------------
\* Order books (strategy_core.py) and depth walks (app.py)
\* A level is [price, size]: price in units of 10^-4, size in units of
\* 10^-2 shares.  A raw book is [bids, asks], bids by descending and asks by
\* ascending price, as get_order_book_metrics sorts them.
\* ---------------------------------------------------------------------

RECURSIVE SumSize(_)
SumSize(levels) ==
    IF levels = <<>> THEN 0 ELSE Head(levels).size + SumSize(Tail(levels))

RECURSIVE SumPriceSize(_)
SumPriceSize(levels) ==
    IF levels = <<>> THEN 0
    ELSE Head(levels).price * Head(levels).size + SumPriceSize(Tail(levels))

BestPrice(levels) == IF levels = <<>> THEN 0 ELSE Head(levels).price

\* (bvwap * bid_vol + avwap * ask_vol) / total, or the midpoint of an empty book
VwapMid(ob) ==
    LET total == SumSize(ob.bids) + SumSize(ob.asks)
    IN  IF total > 0
        THEN RoundDiv(SumPriceSize(ob.bids) + SumPriceSize(ob.asks), total)
        ELSE RoundDiv(BestPrice(ob.bids) + BestPrice(ob.asks), 2)

\* the first n levels of a sorted side (lines 145-146 and 164-165)
TopN(levels, n) == IF Len(levels) <= n THEN levels ELSE SubSeq(levels, 1, n)

\* an imbalance taken against the bid side alone
ImbalanceOverBids(bid_vol, ask_vol) ==
    IF bid_vol + ask_vol > 0
    THEN RoundDiv((bid_vol - ask_vol) * Scale, bid_vol + 1)
    ELSE 0

\* round((bid_vol - ask_vol) / total, 4) if total > 0 else 0.0 (lines 151, 166
\* and 173-174); volumes in units of 10^-2
Imbalance(bid_vol, ask_vol) ==
    IF bid_vol + ask_vol > 0
    THEN RoundDiv((bid_vol - ask_vol) * Scale, bid_vol + ask_vol)
    ELSE 0

get_order_book_metrics(ob) ==
    LET bids == TopN(ob.bids, TOP_LEVELS)
        asks == TopN(ob.asks, TOP_LEVELS)
    IN  [ bid_volume     |-> SumSize(bids),
          ask_volume     |-> SumSize(asks),
          total_volume   |-> SumSize(bids) + SumSize(asks),
          obi            |-> Imbalance(SumSize(bids), SumSize(asks)),
          depth_pressure |-> Imbalance(SumSize(TopN(bids, DEPTH_LEVELS)),
                                       SumSize(TopN(asks, DEPTH_LEVELS))),
          best_bid   |-> BestPrice(bids),
          best_ask   |-> BestPrice(asks),
          spread_pct |-> IF BestPrice(asks) > 0
                         THEN RoundDiv((BestPrice(asks) - BestPrice(bids)) * Scale,
                                       BestPrice(asks))
                         ELSE Scale,
          vwap_mid   |-> VwapMid([bids |-> bids, asks |-> asks]),
          top_bids   |-> TopN(bids, SHOWN_LEVELS),
          top_asks   |-> TopN(asks, SHOWN_LEVELS) ]

\* the loop of _walk_asks_for_entry; amounts in units of 10^-6 dollars.
\* A level that is bought out adds its size to the shares; the level that
\* absorbs the rest of the bet adds remaining / price.
RECURSIVE WalkAsks(_, _)
WalkAsks(levels, remaining) ==
    IF levels = <<>> \/ remaining <= 0
    THEN [full |-> 0, part |-> 0, part_price |-> 1, cost |-> 0]
    ELSE LET l    == Head(levels)
             room == l.price * l.size
         IN  IF remaining <= room
             THEN [full |-> 0, part |-> remaining, part_price |-> l.price,
                   cost |-> remaining]
             ELSE LET rest == WalkAsks(Tail(levels), remaining - room)
                  IN  [rest EXCEPT !.full = l.size + rest.full,
                                   !.cost = room + rest.cost]

\* _walk_asks_for_entry(top_asks, bet_usdc): the fields consider_entry reads
walk_asks_for_entry(top_asks, bet_usdc) ==
    LET w     == WalkAsks(top_asks, bet_usdc * 100)
        denom == w.full * w.part_price + w.part
    IN  [ shares    |-> RoundDivPlus(w.full * 100, w.part * 100, w.part_price),
          avg_price |-> IF denom > 0
                        THEN BDivRound(BMul(BOfInt(w.cost), BOfInt(w.part_price)), denom)
                        ELSE 0 ]

\* the loop of _walk_bids_for_exit; shares in units of 10^-5, proceeds (a big
\* integer) in units of 10^-9 dollars
RECURSIVE WalkBids(_, _)
WalkBids(levels, remaining) ==
    IF levels = <<>> \/ remaining <= 0
    THEN [remaining |-> remaining, proceeds |-> <<>>]
    ELSE LET l    == Head(levels)
             fill == IF remaining <= l.size * 1000 THEN remaining ELSE l.size * 1000
             rest == WalkBids(Tail(levels), remaining - fill)
         IN  [rest EXCEPT !.proceeds =
                  BAdd(BMul(BOfInt(fill), BOfInt(l.price)), rest.proceeds, 0)]

\* _walk_bids_for_exit(top_bids, shares_to_sell), the quantity in units of 10^-5
\* (a quantity ending in 5 is half of a 4-decimal share count: RoundHalfOf)
walk_bids_for_exit(top_bids, qty) ==
    LET w    == WalkBids(top_bids, qty)
        sold == qty - w.remaining
    IN  [ shares_sold |-> IF sold % 10 = 5 THEN RoundHalfOf(sold \div 5)
                          ELSE RoundDiv(sold, 10),
          avg_price   |-> IF sold > 0 THEN BDivRound(w.proceeds, sold) ELSE 0 ]

\* ---------------------------------------------------------------------
\* Combined imbalance and signal (strategy_core.py)
\* Imbalances, components and scores are in units of 10^-4, momentum
\* returns (price_feed.py rounds them to 6 places) in units of 10^-6.
\* ---------------------------------------------------------------------

\* a combination that adds the DOWN side's imbalance instead of opposing it
compute_combined_obi_adding(up_ob, down_ob) ==
    IF down_ob = None THEN up_ob.obi
    ELSE LET total_vol == up_ob.total_volume + down_ob[1].total_volume
         IN  IF total_vol = 0 THEN 0
             ELSE RoundDiv(up_ob.obi * up_ob.total_volume
                             + down_ob[1].obi * down_ob[1].total_volume, total_vol)

\* compute_combined_obi(up_ob, down_ob); down_ob = None is the degraded mode
compute_combined_obi(up_ob, down_ob) ==
    IF down_ob = None THEN up_ob.obi
    ELSE LET up_vol    == up_ob.total_volume
             down_vol  == down_ob[1].total_volume
             total_vol == up_vol + down_vol
         IN  IF total_vol = 0 THEN 0
             ELSE RoundDiv(up_ob.obi * up_vol - down_ob[1].obi * down_vol, total_vol)

\* x * 10^(4k)
BShift(x, k) == [i \in 1..k |-> 0] \o x

\* The moving average is kept exactly: after k steps it is a big integer in
\* units of 10^-(4(k+1)).  Limbs are non-negative, so the average is taken
\* of the entries raised by 1.0 (an imbalance is at least -1) and lowered by
\* 1.0 when it is read; the weights 0.35 and 0.65 add up to 1.

\* a step whose two weights are both alpha
EmaStepEqualWeights(val, ema, k) ==
    BAdd(BMulSmall(BShift(BOfInt(val + Scale), k), 3500, 0), BMulSmall(ema, 3500, 0), 0)

\* line 251: ema_obi = alpha * val + (1 - alpha) * ema_obi, alpha = 0.35
EmaStep(val, ema, k) ==
    BAdd(BMulSmall(BShift(BOfInt(val + Scale), k), 3500, 0), BMulSmall(ema, 6500, 0), 0)

\* lines 250-251: for val in reversed(older), from the k-th step on
RECURSIVE EmaFold(_, _, _)
EmaFold(older, ema, k) ==
    IF older = <<>> THEN [big |-> ema, k |-> k]
    ELSE EmaFold(SubSeq(older, 1, Len(older) - 1),
                 EmaStep(older[Len(older)], ema, k), k + 1)

\* lines 244-251: ema_obi
EmaObi(combined_obi, window) ==
    IF Len(window) = 0 THEN [big |-> BOfInt(combined_obi + Scale), k |-> 0]
    ELSE EmaFold(SubSeq(window, 1, Len(window) - 1),
                 BOfInt(window[Len(window)] + Scale), 0)

\* lines 253-262: round(0.55 * combined_obi + 0.45 * ema_obi + dp_boost, 4);
\* the three terms are raised by 0.55, 0.45 and 0.2
ObiComponent(combined_obi, e, up_ob, down_ob) ==
    LET net_dp == IF up_ob # None /\ down_ob # None
                  THEN up_ob[1].depth_pressure - down_ob[1].depth_pressure
                  ELSE IF up_ob # None THEN up_ob[1].depth_pressure
                  ELSE 0
        inst   == (combined_obi + Scale) * 5500 + (net_dp + 2 * Scale) * 1000
        total  == BAdd(BShift(BOfInt(inst), e.k), BMulSmall(e.big, 4500, 0), 0)
    IN  BRound(total, e.k + 1) - 12000

Sign(x) == IF x > 0 THEN 1 ELSE IF x < 0 THEN -1 ELSE 0

\* lines 271-279: round(max(-1, min(1, (0.4 * mom_30 + 0.6 * mom_60) * scale)), 4),
\* scale = 67.0 for the default SYMBOL
MomComponent(snap) ==
    LET m == RoundDiv((4 * snap.mom_30s + 6 * snap.mom_60s) * MOM_SCALE, 1000)
    IN  IF m > Scale THEN Scale ELSE IF m < -Scale THEN -Scale ELSE m

\* lines 282-287
DivComponent(snap) ==
    IF snap.divergence.direction = "UP" THEN snap.divergence.strength
    ELSE IF snap.divergence.direction = "DOWN" THEN -snap.divergence.strength
    ELSE 0

\* a confirmation that only compares the two signs
ConfirmedBySignsAlone(price_available, obi_component, mom_component) ==
    price_available /\ Sign(obi_component) = Sign(mom_component)

\* lines 269-293: confirmed
Confirmed(price_available, obi_component, mom_component) ==
    /\ price_available
    /\ Sign(obi_component) = Sign(mom_component)
    /\ Sign(obi_component) # 0

\* a penalty without the floor
SpreadPenaltyUnfloored(up_ob) ==
    IF up_ob # None /\ up_ob[1].spread_pct > 800
    THEN Scale - (up_ob[1].spread_pct - 800) * 5
    ELSE Scale

\* lines 320-324: spread_penalty
SpreadPenalty(up_ob) ==
    IF up_ob # None /\ up_ob[1].spread_pct > 800
    THEN LET p == Scale - (up_ob[1].spread_pct - 800) * 5
         IN  IF p > 3000 THEN p ELSE 3000
    ELSE Scale

\* a classification whose bounds are inclusive
LabelInclusive(combined, threshold, confirmed) ==
    LET f == IF confirmed THEN 75 ELSE 100
    IN  IF combined * 100 >= threshold * f
        THEN (IF combined * 1000 >= threshold * f * 18 THEN "STRONG UP" ELSE "UP")
        ELSE IF combined * 100 <= -(threshold * f)
        THEN (IF combined * 1000 <= -(threshold * f * 18) THEN "STRONG DOWN" ELSE "DOWN")
        ELSE "NEUTRAL"

\* lines 330-345: the label; effective_threshold = threshold * f / 100 and
\* effective_threshold * 1.8 are compared exactly
Label(combined, threshold, confirmed) ==
    LET f == IF confirmed THEN 75 ELSE 100
    IN  IF combined * 100 > threshold * f
        THEN (IF combined * 1000 > threshold * f * 18 THEN "STRONG UP" ELSE "UP")
        ELSE IF combined * 100 < -(threshold * f)
        THEN (IF combined * 1000 < -(threshold * f * 18) THEN "STRONG DOWN" ELSE "DOWN")
        ELSE "NEUTRAL"

\* a confidence that is not capped
ConfidenceUncapped(combined, threshold, confirmed, label) ==
    IF label = "NEUTRAL" THEN 50
    ELSE LET abs_c == IF combined < 0 THEN -combined ELSE combined
         IN  55 + ((abs_c * 30) \div threshold) + (IF confirmed THEN 8 ELSE 0)

\* lines 333-334, 338-339 and 345: confidence
Confidence(combined, threshold, confirmed, label) ==
    IF label = "NEUTRAL" THEN 50
    ELSE LET abs_c == IF combined < 0 THEN -combined ELSE combined
             conf  == 55 + ((abs_c * 30) \div threshold) + (IF confirmed THEN 8 ELSE 0)
         IN  IF conf < 97 THEN conf ELSE 97

\* compute_signal(combined_obi, obi_window, threshold, up_ob, down_ob,
\* price_snap), window being its argument obi_window: the returned dict
\* without its colour, its echo of the price snapshot and its two aliases
\* obi_now and obi_avg
compute_signal(combined_obi, window, threshold, up_ob, down_ob, price_snap) ==
    LET e               == EmaObi(combined_obi, window)
        obi_component   == ObiComponent(combined_obi, e, up_ob, down_ob)
        price_available == price_snap # None /\ price_snap[1].available
        mom_component   == IF price_available THEN MomComponent(price_snap[1]) ELSE 0
        div_component   == IF price_available THEN DivComponent(price_snap[1]) ELSE 0
        confirmed       == Confirmed(price_available, obi_component, mom_component)
        fused           == IF price_available
                           THEN RoundDiv(35 * obi_component + 30 * mom_component
                                           + 35 * div_component, 100)
                           ELSE obi_component
        combined        == RoundDiv(fused * SpreadPenalty(up_ob), Scale)
        label           == Label(combined, threshold, confirmed)
    IN  [ label               |-> label,
          confidence          |-> Confidence(combined, threshold, confirmed, label),
          combined            |-> combined,
          confirmed           |-> confirmed,
          effective_threshold |-> RoundDiv(threshold * (IF confirmed THEN 75 ELSE 100), 100),
          spread_penalty      |-> SpreadPenalty(up_ob),
          obi_component       |-> obi_component,
          mom_component       |-> mom_component,
          div_component       |-> div_component,
          price_available     |-> price_available,
          obi_combined        |-> combined_obi,
          obi_ema             |-> (IF e.k = 0 THEN BToInt(e.big) ELSE BRound(e.big, e.k)) - Scale,
          history             |-> window,
          threshold           |-> threshold ]

\* ---------------------------------------------------------------------
\* Specification Spec: the Portfolio driven by any sequence of its methods
\* ---------------------------------------------------------------------

\* inputs of the calls
LowCapital == MIN_BET \div 2
ApiUpPrices == {MIN_ENTRY_PRICE, MAX_ENTRY_PRICE + 100}
ApiDownPrices == {MAX_ENTRY_PRICE, MIN_ENTRY_PRICE - 100}
ApiSecs == {None, Some(MIN_SECS_TO_ENTER - 1), Some(MIN_SECS_TO_ENTER),
            Some(MAX_SECS_TO_ENTER), Some(MAX_SECS_TO_ENTER + 1)}
DepthFilled == [shares |-> 120000, avg_price |-> 3333]
DepthOutOfZone == [shares |-> 110000, avg_price |-> 3636]
DepthEmpty == [shares |-> 0, avg_price |-> 0]
\* (best bid, depth walk) offered with each side's price
ApiUpBooks == { [bid |-> None, depth |-> None],
                [bid |-> Some(1300), depth |-> None],
                [bid |-> Some(1400), depth |-> Some(DepthFilled)] }
ApiDownBooks == { [bid |-> None, depth |-> Some(DepthOutOfZone)],
                  [bid |-> Some(3300), depth |-> Some(DepthEmpty)] }
ApiExitPrices == {900, 4800}
ApiExitBids == {None, Some(4800)}
ApiReasons == {"SL", "LATE"}
ApiWinners == {None, Some(TRUE), Some(FALSE)}

EntryArg(u, d, sl, ub, db) ==
    [ up_price |-> u, down_price |-> d, secs_left |-> sl,
      entry_depth_up |-> ub.depth, entry_depth_down |-> db.depth,
      up_bid |-> ub.bid, down_bid |-> db.bid ]

\* every time with the plainest books, and every pair of books inside the window
EntryArgs ==
    { EntryArg(u, d, sl, [bid |-> None, depth |-> None],
               [bid |-> None, depth |-> Some(DepthOutOfZone)]) :
      u \in ApiUpPrices, d \in ApiDownPrices, sl \in ApiSecs }
    \cup
    { EntryArg(u, d, Some(MAX_SECS_TO_ENTER), ub, db) :
      u \in ApiUpPrices, d \in ApiDownPrices, ub \in ApiUpBooks, db \in ApiDownBooks }

NoArgs == [none |-> TRUE]

InitPortfolio ==
    /\ initial_capital = INITIAL_CAPITAL
    /\ capital \in {INITIAL_CAPITAL, LowCapital}
    /\ active_trade = None
    /\ closed_trades = <<>>
    /\ pnl_history = <<0>>
    /\ trade_counter = 0
    /\ op = "init"
    /\ args = NoArgs
    /\ ret = None
    /\ entry_capital = capital
    /\ partial_calls = 0

SetPortfolio(pf) ==
    /\ capital' = pf.capital
    /\ initial_capital' = pf.initial_capital
    /\ active_trade' = pf.active_trade
    /\ closed_trades' = pf.closed_trades
    /\ pnl_history' = pf.pnl_history
    /\ trade_counter' = pf.trade_counter

\* the calls made while a trade is open: one that would be accepted without it
OpenTradeArgs ==
    { EntryArg(MIN_ENTRY_PRICE, MIN_ENTRY_PRICE - 100, Some(MAX_SECS_TO_ENTER),
               [bid |-> None, depth |-> None],
               [bid |-> None, depth |-> Some(DepthOutOfZone)]) }

\* calls are made while the bound on opened trades is not reached, and at any
\* time while a trade is open
ConsiderEntry ==
    /\ UNCHANGED lvars
    /\ trade_counter < MaxTrades \/ active_trade # None
    /\ \E a \in IF active_trade = None THEN EntryArgs ELSE OpenTradeArgs :
          LET r == consider_entry(PF, a)
          IN  /\ SetPortfolio(r.pf)
              /\ op' = "consider_entry"
              /\ args' = a
              /\ ret' = r.ret
              /\ entry_capital' = IF r.ret THEN capital ELSE entry_capital
              /\ UNCHANGED partial_calls

ApplyPartialExit ==
    /\ UNCHANGED lvars
    /\ partial_calls < MaxPartialCalls
    /\ \E up \in ApiExitPrices, down \in ApiExitPrices, bid \in ApiExitBids :
          LET r == apply_partial_exit(PF, up, down, bid)
          IN  /\ SetPortfolio(r.pf)
              /\ op' = "apply_partial_exit"
              /\ args' = NoArgs
              /\ ret' = r.ret
              /\ partial_calls' = IF active_trade # None THEN partial_calls + 1
                                  ELSE partial_calls
              /\ UNCHANGED entry_capital

ExitAtMarketPrice ==
    /\ UNCHANGED lvars
    /\ \E up \in ApiExitPrices, down \in ApiExitPrices, bid \in ApiExitBids,
       reason \in ApiReasons :
          LET r == exit_at_market_price(PF, up, down, reason, bid)
          IN  /\ SetPortfolio(r.pf)
              /\ op' = "exit_at_market_price"
              /\ args' = NoArgs
              /\ ret' = r.ret
              /\ UNCHANGED <<entry_capital, partial_calls>>

CloseTrade ==
    /\ UNCHANGED lvars
    /\ \E up \in ApiExitPrices, down \in ApiExitPrices, fw \in ApiWinners :
          LET r == close_trade(PF, up, down, fw)
          IN  /\ SetPortfolio(r.pf)
              /\ op' = "close_trade"
              /\ args' = NoArgs
              /\ ret' = r.ret
              /\ UNCHANGED <<entry_capital, partial_calls>>

CancelActiveTrade ==
    /\ UNCHANGED lvars
    /\ SetPortfolio(cancel_active_trade(PF))
    /\ op' = "cancel_active_trade"
    /\ args' = NoArgs
    /\ ret' = None
    /\ UNCHANGED <<entry_capital, partial_calls>>

vars == <<capital, initial_capital, active_trade, closed_trades, pnl_history,
          trade_counter, op, args, ret, entry_capital, partial_calls,
          market_info, last_market_id, time_left, cyc, obi_window>>

\* ---------------------------------------------------------------------
\* The strategy loop (app.py, strategy_loop)
\* ---------------------------------------------------------------------
MIN_BOOK_PRICE == 50
EMERGENCY_SECS == 5

\* lines 195-218: prices and ladders of both sides from the fetched books;
\* down_ob = None is the degraded (single-book) mode
LoopPrices(up_ob, down_ob) ==
    LET up_ask     == up_ob.best_ask
        up_bid     == up_ob.best_bid
        book_valid == up_ask > MIN_BOOK_PRICE /\ up_bid > MIN_BOOK_PRICE /\ up_ask > up_bid
        mirror(levels) == [i \in 1..Len(levels) |->
                              [price |-> Scale - levels[i].price, size |-> levels[i].size]]
    IN  IF down_ob # None
        THEN [ up_ask |-> up_ask, up_bid |-> up_bid, book_valid |-> book_valid,
               degraded      |-> FALSE,
               down_ask      |-> Some(down_ob[1].best_ask),
               down_bid      |-> Some(down_ob[1].best_bid),
               up_price      |-> RoundDiv(up_bid + up_ask, 2),
               down_price    |-> RoundDiv(down_ob[1].best_bid + down_ob[1].best_ask, 2),
               top_asks_up   |-> up_ob.top_asks,
               top_bids_up   |-> up_ob.top_bids,
               top_asks_down |-> down_ob[1].top_asks,
               top_bids_down |-> down_ob[1].top_bids ]
        ELSE [ up_ask |-> up_ask, up_bid |-> up_bid, book_valid |-> book_valid,
               degraded      |-> TRUE,
               down_ask      |-> IF book_valid THEN Some(Scale - up_bid) ELSE None,
               down_bid      |-> IF book_valid THEN Some(Scale - up_ask) ELSE None,
               up_price      |-> up_ob.vwap_mid,
               down_price    |-> Scale - up_ob.vwap_mid,
               top_asks_up   |-> up_ob.top_asks,
               top_bids_up   |-> up_ob.top_bids,
               top_asks_down |-> IF book_valid THEN mirror(up_ob.top_bids) ELSE <<>>,
               top_bids_down |-> IF book_valid THEN mirror(up_ob.top_asks) ELSE <<>> ]

\* lines 277-283 and 297-304: the bid-side fill price of the quantity to sell
\* (in units of 10^-5 shares), None when the book gives none
ExitBidPrice(px, trade, qty) ==
    LET bids_to_walk == IF trade.direction = "UP" THEN px.top_bids_up
                        ELSE px.top_bids_down
    IN  IF px.book_valid /\ bids_to_walk # <<>>
        THEN LET d == walk_bids_for_exit(bids_to_walk, qty)
             IN  IF d.shares_sold > 0 THEN Some(d.avg_price) ELSE None
        ELSE None

\* lines 274-293: the partial exit.  exc: the log line formats
\* (exit_bid_price or 'mid') with :.4f, which raises when no bid price was found
PartialTpStep(pf, px, bid) ==
    [ pf     |-> apply_partial_exit(pf, px.up_price, px.down_price, bid).pf,
      reason |-> Some("PARTIAL_TP"),
      exc    |-> (bid = None \/ bid[1] = 0) ]

\* lines 295-316: the full exit at the walked bid price, else at the mid price
MarketExitStep(pf, px, reason, bid) ==
    [ pf     |-> exit_at_market_price(pf, px.up_price, px.down_price, reason[1], bid).pf,
      reason |-> reason,
      exc    |-> FALSE ]

\* a loop that acts on the partial-profit reason and on no other
ExitOnPartialOnly(pf, px, reason) ==
    IF reason = Some("PARTIAL_TP")
    THEN PartialTpStep(pf, px, ExitBidPrice(px, pf.active_trade[1],
                                            pf.active_trade[1].shares_remaining * 5))
    ELSE [pf |-> pf, reason |-> None, exc |-> FALSE]

\* lines 271-316: what the loop does with the reason check_exits returned
ExitOn(pf, px, reason) ==
    IF reason = Some("PARTIAL_TP")
    THEN PartialTpStep(pf, px, ExitBidPrice(px, pf.active_trade[1],
                                            pf.active_trade[1].shares_remaining * 5))
    ELSE IF reason # None
    THEN MarketExitStep(pf, px, reason,
                        ExitBidPrice(px, pf.active_trade[1],
                                     SharesHeld(pf.active_trade[1]) * 10))
    ELSE [pf |-> pf, reason |-> None, exc |-> FALSE]

\* lines 267-316: exits
ExitStep(pf, px, secs_left) ==
    IF pf.active_trade # None /\ secs_left # None /\ secs_left[1] > 0
    THEN ExitOn(pf, px, check_exits(pf, px.up_price, px.down_price, secs_left))
    ELSE [pf |-> pf, reason |-> None, exc |-> FALSE]

\* lines 320-337: the arguments the loop passes to consider_entry
LoopEntryArgs(pf, px, down_ob, secs_left) ==
    LET bet_size == BetSize(pf.capital)
        depth(asks) == IF px.book_valid /\ asks # <<>> /\ bet_size > 0
                       THEN Some(walk_asks_for_entry(asks, bet_size))
                       ELSE None
    IN  [ up_price         |-> px.up_price,
          down_price       |-> px.down_price,
          secs_left        |-> secs_left,
          entry_depth_up   |-> depth(px.top_asks_up),
          entry_depth_down |-> depth(px.top_asks_down),
          up_bid           |-> IF px.book_valid THEN Some(px.up_bid) ELSE None,
          down_bid         |-> IF px.book_valid /\ down_ob # None THEN px.down_bid
                               ELSE None ]

\* lines 320-344; entries stop at the bound on opened trades
EntryStep(pf, px, down_ob, secs_left) ==
    IF secs_left # None /\ pf.active_trade = None /\ pf.trade_counter < MaxTrades
    THEN consider_entry(pf, LoopEntryArgs(pf, px, down_ob, secs_left))
    ELSE [ret |-> FALSE, pf |-> pf]

\* a loop without the emergency close
EmergencyStepNever(pf, px, secs_left) == pf

\* an emergency close that settles every trade as lost
EmergencyStepLost(pf, px, secs_left) ==
    IF secs_left # None /\ secs_left[1] < EMERGENCY_SECS /\ pf.active_trade # None
    THEN close_trade(pf, px.up_price, px.down_price, Some(FALSE)).pf
    ELSE pf

\* lines 346-348
EmergencyStep(pf, px, secs_left) ==
    IF secs_left # None /\ secs_left[1] < EMERGENCY_SECS /\ pf.active_trade # None
    THEN close_trade(pf, px.up_price, px.down_price, None).pf
    ELSE pf

\* lines 154-160: a market other than the last one starts a new cycle and
\* settles a trade that is still open
NewCycleStep(pf, mi, last) ==
    IF mi.condition_id # last /\ pf.active_trade # None
    THEN close_trade(pf, mi.up_price, mi.down_price, None).pf
    ELSE pf

NoCycle ==
    [ kind |-> "init", reason |-> None, entered |-> FALSE, secs_left |-> None,
      book_valid |-> FALSE, degraded |-> FALSE, up_bid |-> 0, up_ask |-> 0,
      down_bid |-> None, down_ask |-> None ]

\* what an iteration with a fetched book observed
Observation(px, secs_left, reason, entered) ==
    [ kind |-> "body", reason |-> reason, entered |-> entered,
      secs_left |-> secs_left, book_valid |-> px.book_valid,
      degraded |-> px.degraded,
      up_bid |-> px.up_bid, up_ask |-> px.up_ask,
      down_bid |-> px.down_bid, down_ask |-> px.down_ask ]

\* lines 346-411: the end of the iteration.  cyc keeps the observations of an
\* iteration that changed the portfolio, and only the kind of others
BodyEnd(pf, mi, px, secs_left, x, e, pf3) ==
    [ pf  |-> pf3,
      mi  |-> IF secs_left # None /\ secs_left[1] <= 0 THEN None
              ELSE Some([mi EXCEPT !.up_price = px.up_price,
                                   !.down_price = px.down_price]),
      entry_cap |-> IF e.ret THEN Some(x.pf.capital) ELSE None,
      cyc |-> IF pf3 = pf THEN [NoCycle EXCEPT !.kind = "body"]
              ELSE Observation(px, secs_left, x.reason, e.ret) ]

\* lines 346-348 after the entry attempt
BodyEmergency(pf, mi, px, secs_left, x, e) ==
    BodyEnd(pf, mi, px, secs_left, x, e, EmergencyStep(e.pf, px, secs_left))

\* lines 320-344 after the exits; an exception raised by them ends the
\* iteration in the handler of lines 413-422, which drops the market
BodyEntry(pf, mi, px, down_ob, secs_left, x) ==
    IF x.exc
    THEN [ pf |-> x.pf, mi |-> None, entry_cap |-> None,
           cyc |-> [Observation(px, secs_left, x.reason, FALSE)
                        EXCEPT !.kind = "exception"] ]
    ELSE BodyEmergency(pf, mi, px, secs_left, x,
                       EntryStep(x.pf, px, down_ob, secs_left))

\* lines 267-316 on the prices of the iteration
BodyExits(pf, mi, px, down_ob, secs_left) ==
    BodyEntry(pf, mi, px, down_ob, secs_left, ExitStep(pf, px, secs_left))

\* lines 192-411 for a fetched book
BodyStep(pf, mi, up_ob, down_ob, secs_left) ==
    BodyExits(pf, mi, LoopPrices(up_ob, down_ob), down_ob, secs_left)

\* ---- what the loop gets from outside ----------------------------------------
TimeGrid == {0, 4, 30, 100, 250}
FoundPrices == { [up |-> 5000, down |-> 5000], [up |-> 3000, down |-> 7000] }
Lv(p, sz) == [price |-> p, size |-> sz]
UpBooks ==
    { [bids |-> <<Lv(2200, 5000)>>, asks |-> <<Lv(2500, 5000)>>],
      [bids |-> <<Lv(3800, 5000)>>, asks |-> <<Lv(4000, 5000)>>],
      [bids |-> <<Lv(4800, 5000)>>, asks |-> <<Lv(5000, 5000)>>],
      [bids |-> <<Lv(800, 5000)>>,  asks |-> <<Lv(1000, 5000)>>],
      [bids |-> <<Lv(5000, 5000)>>, asks |-> <<Lv(4800, 5000)>>] }
DownBooks ==
    { None,
      Some([bids |-> <<Lv(2400, 5000)>>, asks |-> <<Lv(2500, 300), Lv(2800, 5000)>>]) }

InitLoop ==
    /\ market_info = None
    /\ last_market_id = ""
    /\ time_left = 0
    /\ cyc = NoCycle
    /\ obi_window = <<>>

\* the markets find_active_sol_market can return: the last one again, or
\* another one.  A condition id is only ever compared with the last one, so
\* two ids stand for all of them.
MarketIds == {"m1", "m2"}
Findable ==
    { [condition_id |-> c, up_price |-> fp.up, down_price |-> fp.down, has_end |-> he] :
      c \in MarketIds, fp \in FoundPrices, he \in BOOLEAN }

\* the market this iteration works on: the current one, or one just found
\* (lines 141-151), with the time now left to its end
Working(m, t) ==
    IF market_info # None
    THEN m = market_info[1] /\ t \in TimeGrid /\ t <= time_left
    ELSE /\ m \in Findable
         /\ t \in TimeGrid
         /\ (m.condition_id = last_market_id => t <= time_left)

SecsLeft(m, t) == IF m.has_end THEN Some(t) ELSE None

SetLoopPortfolio(pf, entry_cap) ==
    /\ SetPortfolio(pf)
    /\ op' = "loop"
    /\ args' = NoArgs
    /\ ret' = None
    /\ entry_capital' = IF entry_cap # None THEN entry_cap[1] ELSE entry_capital
    /\ partial_calls' = partial_calls
    /\ UNCHANGED obi_window

SetBody(b) ==
    /\ SetLoopPortfolio(b.pf, b.entry_cap)
    /\ market_info' = b.mi
    /\ cyc' = b.cyc

\* lines 141-149: no market found
CycleSearchFail ==
    /\ market_info = None
    /\ cyc' = [NoCycle EXCEPT !.kind = "search_fail"]
    /\ UNCHANGED <<market_info, last_market_id, time_left>>
    /\ SetLoopPortfolio(PF, None)

\* lines 170-180: the book fetch reports an expired market
CycleExpired ==
    \E t \in TimeGrid : \E m \in Findable \cup {mm[1] : mm \in {market_info} \ {None}} :
        /\ Working(m, t)
        /\ SetLoopPortfolio(close_trade(NewCycleStep(PF, m, last_market_id),
                                        m.up_price, m.down_price, None).pf, None)
        /\ market_info' = None
        /\ last_market_id' = m.condition_id
        /\ time_left' = t
        /\ cyc' = [NoCycle EXCEPT !.kind = "expired"]

\* lines 181-190 (another fetch error) and 413-422 (an exception before the
\* exits): the former keeps the market, the latter drops it
CycleError ==
    \E t \in TimeGrid : \E m \in Findable \cup {mm[1] : mm \in {market_info} \ {None}} :
      \E raised \in BOOLEAN :
        /\ Working(m, t)
        /\ SetLoopPortfolio(NewCycleStep(PF, m, last_market_id), None)
        /\ market_info' = IF raised THEN None ELSE Some(m)
        /\ last_market_id' = m.condition_id
        /\ time_left' = t
        /\ cyc' = [NoCycle EXCEPT !.kind = IF raised THEN "exception" ELSE "fetch_error"]

\* lines 192-411: an iteration with a fetched book
CycleBody ==
    \E t \in TimeGrid : \E m \in Findable \cup {mm[1] : mm \in {market_info} \ {None}} :
      \E ub \in UpBooks, db \in DownBooks :
        /\ Working(m, t)
        /\ SetBody(BodyStep(NewCycleStep(PF, m, last_market_id), m,
                             get_order_book_metrics(ub),
                             IF db = None THEN None
                             ELSE Some(get_order_book_metrics(db[1])),
                             SecsLeft(m, t)))
        /\ last_market_id' = m.condition_id
        /\ time_left' = t

NextLoop ==
    \/ CycleSearchFail
    \/ CycleExpired
    \/ CycleError
    \/ CycleBody


\* ---------------------------------------------------------------------
\* Specification SpecLoopFair: the strategy loop under fairness.
\* The loop never stops by itself (while True, every path ends in a finite
\* sleep), and the wall clock advances by at least POLL_INTERVAL seconds per
\* iteration, so the time seconds_remaining gives for a market with an end
\* date falls below any bound; from then on an iteration either fetches the
\* book with less than EMERGENCY_SECS seconds left or is told that the market
\* has expired, provided markets keep being found and book fetches do not
\* fail for ever with another error.
\* ---------------------------------------------------------------------

\* a step of the loop that is an iteration told that the market expired
\* (lines 170-180), or one that fetched the book of a market with a known end
\* and less than EMERGENCY_SECS seconds left and ran the exits (lines 264-316).
\* The step is recognised by what it leaves: the kind of the iteration, the
\* time left, and the end date in the market held before or after it or the
\* seconds it recorded; an exception before the exits records no reason.
CycleSettling ==
    \/ cyc'.kind = "expired"
    \/ /\ time_left' < EMERGENCY_SECS
       /\ \/ /\ cyc'.kind = "body"
             /\ \/ cyc'.secs_left # None
                \/ (market_info # None /\ market_info[1].has_end)
                \/ (market_info' # None /\ market_info'[1].has_end)
          \/ /\ cyc'.kind = "exception"
             /\ cyc'.reason # None

\* strong fairness of the settling iterations.  CycleExpired can be taken in
\* every state, so a settling iteration is enabled in every state and
\* SF_vars(CycleSettling) is the statement that such steps happen again and
\* again.
FairLoop == []<><<CycleSettling>>_vars

\* ---------------------------------------------------------------------
\* Specification SpecSeq: a process lifetime of the Portfolio, one trade
\* lifecycle after the other (entry, the partial stage at most once, one
\* close), with the read-only methods called at any point
\* ---------------------------------------------------------------------

\* the entries asked for: an UP one and a DOWN one, both acceptable
SeqEntryArgs ==
    { EntryArg(MIN_ENTRY_PRICE, Scale - MIN_ENTRY_PRICE, Some(MAX_SECS_TO_ENTER),
               [bid |-> None, depth |-> None], [bid |-> None, depth |-> None]),
      EntryArg(Scale - MAX_ENTRY_PRICE, MAX_ENTRY_PRICE, Some(MAX_SECS_TO_ENTER),
               [bid |-> None, depth |-> None], [bid |-> None, depth |-> None]) }

\* the price both sides are quoted at when the partial stage is run
SeqPartialPrice == TARGET_PRICE + 100
\* the price both sides are quoted at when the trade is stopped out
SeqStopPrice == SL_PRICE_ABS - 100

\* the prices of one side given to check_exits, the other side getting the
\* complement, and the seconds left
CheckPrices == {SL_PRICE_ABS, SL_PRICE_ABS + 100, 2000, TARGET_PRICE}
CheckQuotes == { [up |-> p, down |-> Scale - p] : p \in CheckPrices }
               \cup { [up |-> Scale - p, down |-> p] : p \in CheckPrices }
CheckSecs == {None, Some(LATE_SECS), Some(LATE_SECS + 1)}
\* prices given to stats
StatsPrices == {SeqStopPrice, Scale \div 2}

SeqEntry ==
    /\ UNCHANGED lvars
    /\ trade_counter < MaxLifecycles \/ active_trade # None
    /\ \E a \in SeqEntryArgs :
          LET r == consider_entry(PF, a)
          IN  /\ SetPortfolio(r.pf)
              /\ op' = "consider_entry"
              /\ args' = a
              /\ ret' = r.ret
              /\ entry_capital' = IF r.ret THEN capital ELSE entry_capital
              /\ UNCHANGED partial_calls

\* the partial stage, run on a trade that has not had it, or with no trade
SeqPartialExit ==
    /\ UNCHANGED lvars
    /\ active_trade # None => ~active_trade[1].partial_exit_done
    /\ LET r == apply_partial_exit(PF, SeqPartialPrice, SeqPartialPrice, None)
       IN  /\ SetPortfolio(r.pf)
           /\ op' = "apply_partial_exit"
           /\ args' = NoArgs
           /\ ret' = r.ret
           /\ UNCHANGED <<entry_capital, partial_calls>>

\* BurstCalls successive calls apply_partial_exit(0.0, 0.0) on a trade: every
\* call recomputes the same partial_pnl from the trade's shares, bet_size and
\* entry_fee, which no call changes, and adds the same amount to capital
\* (simulator.py:356-361), so the calls after the first repeat its credit
apply_partial_exit_burst(pf, up_price, down_price, n) ==
    LET one == apply_partial_exit(pf, up_price, down_price, None)
    IN  [ret |-> one.ret,
         pf  |-> [one.pf EXCEPT !.capital =
                                   pf.capital + n * (one.pf.capital - pf.capital)]]

SeqPartialExitBurst ==
    /\ UNCHANGED lvars
    /\ active_trade # None
    /\ ~active_trade[1].partial_exit_done
    /\ LET r == apply_partial_exit_burst(PF, 0, 0, BurstCalls)
       IN  /\ SetPortfolio(r.pf)
           /\ op' = "apply_partial_exit"
           /\ args' = NoArgs
           /\ ret' = r.ret
           /\ UNCHANGED <<entry_capital, partial_calls>>

SeqMarketExit ==
    /\ UNCHANGED lvars
    /\ LET r == exit_at_market_price(PF, SeqStopPrice, SeqStopPrice, "SL", None)
       IN  /\ SetPortfolio(r.pf)
           /\ op' = "exit_at_market_price"
           /\ args' = NoArgs
           /\ ret' = r.ret
           /\ UNCHANGED <<entry_capital, partial_calls>>

SeqCloseTrade ==
    /\ UNCHANGED lvars
    /\ LET r == close_trade(PF, Scale, 0, Some(TRUE))
       IN  /\ SetPortfolio(r.pf)
           /\ op' = "close_trade"
           /\ args' = NoArgs
           /\ ret' = r.ret
           /\ UNCHANGED <<entry_capital, partial_calls>>

CheckExits ==
    /\ UNCHANGED lvars
    /\ \E q \in CheckQuotes, sl \in CheckSecs :
          /\ op' = "check_exits"
          /\ args' = [up_price |-> q.up, down_price |-> q.down, secs_left |-> sl]
          /\ ret' = check_exits(PF, q.up, q.down, sl)
          /\ UNCHANGED <<pvars, entry_capital, partial_calls>>

Stats ==
    /\ UNCHANGED lvars
    /\ \E p \in StatsPrices :
          LET r == stats(PF, p, Scale - p)
          IN  /\ SetPortfolio(r.pf)
              /\ op' = "stats"
              /\ args' = [up_price |-> p, down_price |-> Scale - p]
              /\ ret' = r.ret
              /\ UNCHANGED <<entry_capital, partial_calls>>

NextSeq ==
    \/ SeqEntry
    \/ SeqPartialExit
    \/ SeqPartialExitBurst
    \/ SeqMarketExit
    \/ SeqCloseTrade
    \/ CancelActiveTrade
    \/ CheckExits
    \/ Stats

\* ---------------------------------------------------------------------
\* Specification SpecSignal: the signal path of the strategy loop (app.py,
\* lines 141-261).  The two concerns of the loop do not meet: the Portfolio
\* reads neither the window nor the signal (consider_entry and check_exits
\* take the signal and ignore it) and the signal path does not read the
\* Portfolio.  SpecLoop follows the Portfolio and leaves the window alone;
\* SpecSignal follows the window and the signal and leaves the Portfolio.
\* ---------------------------------------------------------------------

\* a deque that never evicts
DequeAppendUnbounded(window, x) == Append(window, x)

\* deque(maxlen=WINDOW_SIZE).append(x)
DequeAppend(window, x) ==
    IF Len(window) < WINDOW_SIZE THEN Append(window, x)
    ELSE Append(Tail(window), x)

\* lines 154-158: obi_window.clear() when the market is not the last one
NewCycleWindow(mi, last, window) ==
    IF mi.condition_id # last THEN <<>> ELSE window

\* lines 249-261: the hard spread filter on the label
SpreadFilter(signal, up_ob, down_ob) ==
    LET up_ask     == up_ob.best_ask
        up_bid     == up_ob.best_bid
        book_valid == up_ask > MIN_BOOK_PRICE /\ up_bid > MIN_BOOK_PRICE /\ up_ask > up_bid
        wide(ask, bid) == IF ask > 0 THEN (ask - bid) * 10 > ask ELSE TRUE
        muted == /\ book_valid
                 /\ \/ signal.label \in {"UP", "STRONG UP"} /\ wide(up_ask, up_bid)
                    \/ /\ signal.label \in {"DOWN", "STRONG DOWN"}
                       /\ down_ob # None
                       /\ wide(down_ob[1].best_ask, down_ob[1].best_bid)
    IN  IF muted THEN [signal EXCEPT !.label = "NEUTRAL"] ELSE signal

\* ---- what the signal path gets from outside ---------------------------------
SignalMarkets ==
    { [condition_id |-> c, up_price |-> 5000, down_price |-> 5000, has_end |-> TRUE] :
      c \in MarketIds }
SignalUpBooks ==
    { [bids |-> <<Lv(4700, 5818)>>, asks |-> <<Lv(5000, 4182)>>],
      [bids |-> <<Lv(4400, 5818)>>, asks |-> <<Lv(5000, 4182)>>] }
SignalDownBooks ==
    { None, Some([bids |-> <<Lv(4800, 2000)>>, asks |-> <<Lv(5000, 8000)>>]) }
NoSnap == [available |-> FALSE, mom_30s |-> 0, mom_60s |-> 0,
           divergence |-> [direction |-> "NEUTRAL", strength |-> 0]]
Snap(m30, m60, dir, str) ==
    [available |-> TRUE, mom_30s |-> m30, mom_60s |-> m60,
     divergence |-> [direction |-> dir, strength |-> str]]
SignalSnaps == {NoSnap, Snap(3582, 3582, "UP", 5000)}

\* the combined_obi values these books give
SignalReadings ==
    { compute_combined_obi(get_order_book_metrics(ub),
                           IF db = None THEN None ELSE Some(get_order_book_metrics(db[1]))) :
      ub \in SignalUpBooks, db \in SignalDownBooks }

\* what an iteration found when it started: whether the market was another
\* one than the last, and whether the window it appends to was full
SignalCycle(kind, mi) ==
    [ kind |-> kind,
      new_cycle |-> (mi.condition_id # last_market_id),
      was_full |-> (Len(NewCycleWindow(mi, last_market_id, obi_window)) = WINDOW_SIZE) ]

SetSignalCall(o, a, r, c) ==
    /\ op' = o
    /\ args' = a
    /\ ret' = r
    /\ cyc' = c
    /\ UNCHANGED <<pvars, entry_capital, partial_calls, time_left>>

\* the market this iteration works on (lines 141-151)
SignalWorking(m) ==
    IF market_info # None THEN m = market_info[1] ELSE m \in SignalMarkets

\* lines 168-190, and 413-422 before the books are read: an iteration that
\* gets no book; dropped: the market is given up (expired, or an exception)
SignalCycleError ==
    \E m \in SignalMarkets : \E dropped \in BOOLEAN :
        /\ SignalWorking(m)
        /\ obi_window' = NewCycleWindow(m, last_market_id, obi_window)
        /\ last_market_id' = m.condition_id
        /\ market_info' = IF dropped THEN None ELSE Some(m)
        /\ SetSignalCall("loop", NoArgs, None, SignalCycle("no_book", m))

\* lines 192-261: an iteration with fetched books; dropped: the rest of the
\* iteration gives the market up (no time left, or an exception)
SignalCycleBody ==
    \E m \in SignalMarkets : \E ub \in SignalUpBooks, db \in SignalDownBooks :
      \E price_snap \in SignalSnaps, dropped \in BOOLEAN :
        LET up_ob        == get_order_book_metrics(ub)
            down_ob      == IF db = None THEN None
                            ELSE Some(get_order_book_metrics(db[1]))
            combined_obi == compute_combined_obi(up_ob, down_ob)
            window       == DequeAppend(NewCycleWindow(m, last_market_id, obi_window),
                                        combined_obi)
            signal       == compute_signal(combined_obi, window, OBI_THRESHOLD,
                                           Some(up_ob), down_ob, Some(price_snap))
        IN  /\ SignalWorking(m)
            /\ obi_window' = window
            /\ last_market_id' = m.condition_id
            /\ market_info' = IF dropped THEN None ELSE Some(m)
            /\ SetSignalCall("compute_signal",
                             [ combined_obi |-> combined_obi, obi_window |-> window,
                               spread_pct |-> up_ob.spread_pct,
                               available |-> price_snap.available ],
                             SpreadFilter(signal, up_ob, down_ob),
                             SignalCycle("signal", m))

NextSignal ==
    \/ SignalCycleError
    \/ SignalCycleBody

\* ---------------------------------------------------------------------
\* Specification SpecCalc: the functions of strategy_core.py and
\* Trade.close_binary, each applied to arguments drawn from the sets below
\* ---------------------------------------------------------------------
BidSides ==
    { <<>>, <<Lv(4000, 0)>>, <<Lv(4700, 5818)>>, <<Lv(4400, 3000)>>,
      <<Lv(5000, 100), Lv(1000, 10000)>>,
      <<Lv(4900, 500), Lv(4800, 500), Lv(4700, 500), Lv(4600, 8500)>> }
AskSides ==
    { <<>>, <<Lv(4200, 0)>>, <<Lv(5000, 4182)>>, <<Lv(5200, 100)>>,
      <<Lv(5000, 7000), Lv(9000, 20000)>> }
RawBooks == { [bids |-> b, asks |-> a] : b \in BidSides, a \in AskSides }

\* the fields of a book's metrics that compute_combined_obi and
\* compute_signal read
BookFields(obi, vol, dp, sp) ==
    [obi |-> obi, total_volume |-> vol, depth_pressure |-> dp, spread_pct |-> sp]
ObiGrid == {-Scale, -2500, 0, 1636, Scale}
VolumeGrid == {0, 5000, 15000}
CombinerBooks == { BookFields(o, v, 0, 0) : o \in ObiGrid, v \in VolumeGrid }

ObiReadings == {-3241, -3240, -1801, -1800, 0, 1800, 1801, 2000, 3240, 3241}
Windows ==
    { <<>>, <<2000>>, <<2000, 2000, 2000>>, <<2000, 2000, 2000, 2000, 2000, 2000>>,
      <<-5000, -5000>>, <<0, 0, 0, 0>>, <<Scale, Scale, Scale, Scale, Scale>>,
      <<1000, -3000, 2400>> }
SignalBooks ==
    { None, Some(BookFields(1636, 10000, 1636, 600)), Some(BookFields(-4000, 10000, -4000, 1200)),
      Some(BookFields(0, 0, 0, 900)), Some(BookFields(0, 0, 0, Scale)) }
SignalDownFields == { None, Some(BookFields(-6000, 10000, -6000, 400)) }
PriceSnaps ==
    { None, Some(NoSnap), Some(Snap(3582, 3582, "NEUTRAL", 0)),
      Some(Snap(-3582, -3582, "DOWN", 5000)), Some(Snap(0, 0, "UP", 10000)),
      Some(Snap(20000, 20000, "UP", 2500)) }

TradePrices == {1000, 2500, 5000}
TradeBets == {1 * Scale, 3 * Scale, 4 * Scale}

\* books offered to the entry evaluation of the loop: an UP book whose asks
\* hold less than the bet, one whose asks fill it over two levels, a crossed
\* one (no depth walk), and an UP book whose mirrored bids are the thin asks
\* of the DOWN side in degraded mode
EntryUpBooks ==
    { [bids |-> <<Lv(2400, 5000)>>, asks |-> <<Lv(2500, 300)>>],
      [bids |-> <<Lv(2400, 5000)>>, asks |-> <<Lv(2500, 300), Lv(2800, 5000)>>],
      [bids |-> <<Lv(2600, 5000)>>, asks |-> <<Lv(2400, 5000)>>],
      [bids |-> <<Lv(7400, 200)>>,  asks |-> <<Lv(7600, 5000)>>] }
EntryDownBooks ==
    { None, Some([bids |-> <<Lv(7400, 5000)>>, asks |-> <<Lv(7600, 5000)>>]) }
EntryCapitals == {INITIAL_CAPITAL, INITIAL_CAPITAL \div 2}

\* an exit check that closes a trade on a signal against its direction
CheckExitsOnReversal(pf, signal, up_price, down_price, secs_left) ==
    IF /\ pf.active_trade # None
       /\ signal.label \in (IF pf.active_trade[1].direction = "UP"
                            THEN {"DOWN", "STRONG DOWN"} ELSE {"UP", "STRONG UP"})
    THEN Some("SIGNAL")
    ELSE check_exits(pf, up_price, down_price, secs_left)

\* simulator.py, lines 322-348: check_exits takes the signal as its first
\* argument and does not read it
PortfolioCheckExits(pf, signal, up_price, down_price, secs_left) ==
    check_exits(pf, up_price, down_price, secs_left)

\* simulator.py, lines 240-318: consider_entry takes the signal as its first
\* argument and does not read it
PortfolioConsiderEntry(pf, signal, a) ==
    consider_entry(pf, a)

\* the signals offered to the decisions: one of each label
DecisionSignals ==
    { compute_signal(c, <<>>, OBI_THRESHOLD, None, None, None) :
      c \in {-3241, -1801, 0, 1801, 3241} }
DecisionStages == {"none", "open", "partial"}
DecisionUpPrices == {900, 2500, 4800}
DecisionSecs == {None, Some(LATE_SECS), Some(100)}

\* the portfolio the decisions are asked of: without a trade, with an UP trade
\* entered at 0.25, and with that trade after its partial stage
DecisionPortfolio(stage) ==
    LET open == consider_entry(PF, EntryArg(2500, 7500, Some(100),
                                            [bid |-> None, depth |-> None],
                                            [bid |-> None, depth |-> None])).pf
    IN  IF stage = "none" THEN PF
        ELSE IF stage = "open" THEN open
        ELSE apply_partial_exit(open, 4800, 5200, None).pf

\* both decisions of an iteration on one signal (app.py, lines 268-273 and
\* 327-337)
Decisions(pf, signal, a) ==
    [ entry  |-> PortfolioConsiderEntry(pf, signal, a),
      reason |-> PortfolioCheckExits(pf, signal, a.up_price, a.down_price, a.secs_left) ]

\* the call to make and its arguments
CalcInputs ==
    { [fn |-> "get_order_book_metrics", ob |-> ob] : ob \in RawBooks }
    \cup { [fn |-> "compute_combined_obi", up_ob |-> u, down_ob |-> d] :
            u \in CombinerBooks, d \in {None} \cup {Some(b) : b \in CombinerBooks} }
    \cup { [fn |-> "compute_signal", combined_obi |-> c, obi_window |-> w,
             up_ob |-> u, down_ob |-> d, price_snap |-> s] :
            c \in ObiReadings, w \in Windows, u \in SignalBooks,
            d \in SignalDownFields, s \in PriceSnaps }
    \cup { [fn |-> "close_binary", won |-> won,
             trade |-> NewTrade(1, "UP", p, RoundDiv(b * Scale, p), b, MAX_SECS_TO_ENTER)] :
            p \in TradePrices, b \in TradeBets, won \in BOOLEAN }
    \cup { [fn |-> "loop_entry", capital |-> c, up_ob |-> u, down_ob |-> d,
             secs_left |-> Some(MAX_SECS_TO_ENTER)] :
            c \in EntryCapitals, u \in EntryUpBooks, d \in EntryDownBooks }
    \cup { [fn |-> "decisions", signal |-> sig, stage |-> st,
             a |-> EntryArg(u, Scale - u, sl, [bid |-> None, depth |-> None],
                            [bid |-> None, depth |-> None])] :
            sig \in DecisionSignals, st \in DecisionStages,
            u \in DecisionUpPrices, sl \in DecisionSecs }

InitCalc ==
    /\ InitLoop
    /\ initial_capital = INITIAL_CAPITAL
    /\ capital = INITIAL_CAPITAL
    /\ active_trade = None
    /\ closed_trades = <<>>
    /\ pnl_history = <<0>>
    /\ trade_counter = 0
    /\ op = "input"
    /\ args \in CalcInputs
    /\ ret = None
    /\ entry_capital = capital
    /\ partial_calls = 0

\* the call is made once, on the arguments drawn
Apply(fn, result) ==
    /\ op = "input"
    /\ args.fn = fn
    /\ op' = fn
    /\ ret' = result
    /\ UNCHANGED <<args, pvars, entry_capital, partial_calls, lvars>>

CallOrderBookMetrics ==
    Apply("get_order_book_metrics", get_order_book_metrics(args.ob))

CallCombinedObi ==
    Apply("compute_combined_obi", compute_combined_obi(args.up_ob, args.down_ob))

CallComputeSignal ==
    Apply("compute_signal",
          compute_signal(args.combined_obi, args.obi_window, OBI_THRESHOLD,
                         args.up_ob, args.down_ob, args.price_snap))

\* Trade(...).close_binary(won, 1.0 or 0.0) on a trade that has not run its
\* partial stage
CallCloseBinary ==
    Apply("close_binary",
          close_binary(args.trade, args.won, IF args.won THEN Scale ELSE 0, "EXPIRE"))

\* the entry evaluation of the loop (app.py, lines 320-337) on a portfolio
\* with no trade: the depth walks on the books of the iteration, then
\* consider_entry
CallLoopEntry ==
    Apply("loop_entry",
          LET up   == get_order_book_metrics(args.up_ob)
              down == IF args.down_ob = None THEN None
                      ELSE Some(get_order_book_metrics(args.down_ob[1]))
          IN  EntryStep([PF EXCEPT !.capital = args.capital],
                        LoopPrices(up, down), down, args.secs_left))

\* consider_entry and check_exits on a drawn signal, portfolio, prices and time
CallDecisions ==
    Apply("decisions", Decisions(DecisionPortfolio(args.stage), args.signal, args.a))

NextCalc ==
    \/ CallOrderBookMetrics
    \/ CallCombinedObi
    \/ CallComputeSignal
    \/ CallCloseBinary
    \/ CallLoopEntry
    \/ CallDecisions

\* ---------------------------------------------------------------------
\* Specifications
\* ---------------------------------------------------------------------
Init == InitPortfolio /\ InitLoop

Next ==
    \/ ConsiderEntry
    \/ ApplyPartialExit
    \/ ExitAtMarketPrice
    \/ CloseTrade
    \/ CancelActiveTrade

Spec == Init /\ [][Next]_vars

SpecLoop == Init /\ [][NextLoop]_vars

SpecLoopFair == SpecLoop /\ FairLoop

SpecSeq == Init /\ [][NextSeq]_vars

SpecSignal == Init /\ [][NextSignal]_vars

SpecCalc == InitCalc /\ [][NextCalc]_vars

\* ---------------------------------------------------------------------
\* Properties
\* ---------------------------------------------------------------------

\* C1: at most one trade is open after any sequence of Portfolio operations:
\* a consider_entry call made while a trade is open returns False and leaves
\* that trade the active one, and no closed trade has status OPEN.
C1_SingleOpenTrade ==
    [][ /\ \A i \in 1..Len(closed_trades') : closed_trades'[i].status # "OPEN"
        /\ (op' = "consider_entry" /\ active_trade # None)
              => (ret' = FALSE /\ active_trade' = active_trade
                  /\ trade_counter' = trade_counter) ]_vars

\* consider_entry was called with acceptable arguments while a trade was open
C1_Witness ==
    /\ op = "consider_entry"
    /\ ret = FALSE
    /\ active_trade # None
    /\ capital >= 10000
    /\ args.secs_left = <<240>>
    /\ args.up_price = 1500
    /\ args.up_bid = None
    /\ args.entry_depth_up = None

\* C2: consider_entry returns False when capital < 1.0, when secs_left is
\* None or outside [60, 240], when neither price is in [0.15, 0.35], and when
\* the depth-walked average fill price of the chosen side is outside it.
C2_EntryRejections ==
    [][ LET a      == args'
            inZone(p) == 1500 <= p /\ p <= 3500
            depth  == IF inZone(a.up_price) THEN a.entry_depth_up
                      ELSE a.entry_depth_down
        IN  (/\ op' = "consider_entry"
             /\ \/ capital < 10000
                \/ a.secs_left = <<>>
                \/ (a.secs_left # <<>> /\ (a.secs_left[1] < 60 \/ a.secs_left[1] > 240))
                \/ (~inZone(a.up_price) /\ ~inZone(a.down_price))
                \/ (depth # <<>> /\ depth[1].shares > 0 /\ ~inZone(depth[1].avg_price)))
            => ret' = FALSE ]_vars

\* a call rejected only because the depth walk's average price is above the zone
C2_Witness ==
    /\ op = "consider_entry"
    /\ ret = FALSE
    /\ active_trade = None
    /\ capital = INITIAL_CAPITAL
    /\ args.secs_left = <<240>>
    /\ args.up_price = 3600
    /\ args.down_price = 3500
    /\ args.down_bid = None
    /\ args.entry_depth_down # None
    /\ args.entry_depth_down[1].avg_price = 3636

\* C3: the strategy loop never opens a trade in a cycle in which the book
\* spread (ask - bid) / ask of the entered side is above 8%, in full mode and
\* in degraded mode.
C3_LoopSpreadFilter ==
    (cyc.kind = "body" /\ cyc.entered /\ active_trade # None)
        => IF active_trade[1].direction = "UP"
           THEN ~(cyc.up_ask > 0
                  /\ (cyc.up_ask - cyc.up_bid) * 10000 > 800 * cyc.up_ask)
           ELSE ~(cyc.down_ask # None /\ cyc.down_bid # None /\ cyc.down_ask[1] > 0
                  /\ (cyc.down_ask[1] - cyc.down_bid[1]) * 10000 > 800 * cyc.down_ask[1])

\* C4: a consider_entry call that returns False leaves capital, the trade
\* counter, active_trade, closed_trades and pnl_history as they were.
C4_RejectedEntryFrame ==
    [][ (op' = "consider_entry" /\ ret' = FALSE)
            => /\ capital' = capital
               /\ trade_counter' = trade_counter
               /\ active_trade' = active_trade
               /\ closed_trades' = closed_trades
               /\ pnl_history' = pnl_history ]_vars

\* a call rejected by the spread filter, after the side was chosen
C4_Witness ==
    /\ op = "consider_entry"
    /\ ret = FALSE
    /\ active_trade = None
    /\ trade_counter = 0
    /\ capital = INITIAL_CAPITAL
    /\ args.secs_left = <<240>>
    /\ args.up_price = 1500
    /\ args.up_bid = <<1300>>

\* C5: a consider_entry call that returns True debits exactly
\* round(capital_before * 0.04, 2), adds 1 to the trade counter and makes
\* active_trade a new OPEN trade with id the new counter, that bet_size,
\* shares_remaining = shares and partial_exit_done false; closed_trades and
\* pnl_history are unchanged.
C5_AcceptedEntryEffect ==
    [][ (op' = "consider_entry" /\ ret' = TRUE)
            => LET bet == RoundDiv(capital * 4, 10000) * 100
               IN  /\ capital' = capital - bet
                   /\ trade_counter' = trade_counter + 1
                   /\ active_trade = None
                   /\ active_trade' # None
                   /\ active_trade'[1].status = "OPEN"
                   /\ active_trade'[1].id = trade_counter'
                   /\ active_trade'[1].bet_size = bet
                   /\ active_trade'[1].shares_remaining = active_trade'[1].shares
                   /\ active_trade'[1].shares > 0
                   /\ active_trade'[1].partial_exit_done = FALSE
                   /\ closed_trades' = closed_trades
                   /\ pnl_history' = pnl_history ]_vars

\* an entry accepted from the initial capital with the depth walk's fill
C5_Witness ==
    /\ op = "consider_entry"
    /\ ret = TRUE
    /\ active_trade # None
    /\ active_trade[1].bet_size = 40000
    /\ active_trade[1].entry_price = 3333
    /\ capital = 960000

\* C6: the partial-exit stage reduces shares_remaining by half of the original
\* share count (to the 4 decimals shares are kept with), and invoking it again on the same trade changes
\* neither shares_remaining nor partial_pnl nor capital.
C6_PartialExitIdempotent ==
    [][ (op' = "apply_partial_exit" /\ active_trade # None)
            => /\ active_trade' # None
               /\ 2 * (active_trade[1].shares - active_trade'[1].shares_remaining)
                     - active_trade[1].shares \in {-1, 0, 1}
               /\ active_trade[1].partial_exit_done
                     => /\ active_trade'[1].shares_remaining
                              = active_trade[1].shares_remaining
                        /\ active_trade'[1].partial_pnl = active_trade[1].partial_pnl
                        /\ capital' = capital ]_vars

\* C7: over any run of the strategy loop, for every trade, shares_remaining
\* never increases, bet_size keeps its value, a closed trade is never touched
\* again, and the partial-exit stage is not run on a trade whose
\* partial_exit_done is true.
C7_LoopTradeMonotone ==
    [][ LET t == active_trade[1]
            \* the same trade after the step: still active, or the last closed one
            c == IF active_trade' # <<>> /\ active_trade'[1].id = t.id
                     THEN active_trade'[1]
                     ELSE IF closed_trades' # <<>>
                     THEN closed_trades'[Len(closed_trades')]
                     ELSE t
        IN  /\ Len(closed_trades') >= Len(closed_trades)
            /\ SubSeq(closed_trades', 1, Len(closed_trades)) = closed_trades
            /\ active_trade # <<>>
                  => /\ c.id = t.id
                     /\ c.bet_size = t.bet_size
                     /\ c.shares = t.shares
                     /\ c.shares_remaining <= t.shares_remaining
                     /\ t.partial_exit_done
                           => /\ cyc'.reason # <<"PARTIAL_TP">>
                              /\ c.shares_remaining = t.shares_remaining
                              /\ c.partial_pnl = t.partial_pnl ]_vars

\* a trade whose partial stage ran in one iteration and that a later iteration
\* closed at a price above the target
C7_Witness ==
    /\ op = "loop"
    /\ closed_trades # <<>>
    /\ closed_trades[1].partial_exit_done
    /\ closed_trades[1].shares_remaining < closed_trades[1].shares
    /\ closed_trades[1].exit_reason = <<"LATE">>
    /\ closed_trades[1].exit_price # None
    /\ closed_trades[1].exit_price[1] >= 4700

C10_CancelReturnsCapital ==
    [][ (op' = "cancel_active_trade" /\ active_trade # None)
            => LET t == active_trade[1]
                   c == closed_trades'[Len(closed_trades')]
               IN  /\ active_trade' = None
                   /\ c.id = t.id
                   /\ c.status = "CANCELLED"
                   /\ c.exit_fee = 0
                   /\ c.pnl = <<>>
                   /\ capital' = capital
                         + (t.bet_size * (IF t.partial_exit_done THEN 5 ELSE 10)) \div 10
      ]_vars

\* C11: for an open trade, check_exits reports "SL" whenever the price of the
\* trade's side is at or below 0.10, whether or not the partial stage has run.
C11_StopLossAtAnyStage ==
    (/\ op = "check_exits"
     /\ active_trade # <<>>
     /\ (IF active_trade[1].direction = "UP" THEN args.up_price
         ELSE args.down_price) <= 1000)
        => ret = <<"SL">>

\* check_exits reported the stop-loss at exactly 0.10 for a trade whose partial
\* stage had run
C11_Witness ==
    /\ op = "check_exits"
    /\ active_trade # <<>>
    /\ active_trade[1].partial_exit_done
    /\ active_trade[1].direction = "DOWN"
    /\ args.down_price = 1000
    /\ args.up_price = 9000
    /\ ret = <<"SL">>

\* C12: check_exits returns at most one reason (PARTIAL_TP, SL, LATE or None),
\* and it is the one given by the order stop-loss, then partial-profit
\* threshold, then time-based exit, for every trade state, price and time.
C12_ExitPriorityOrder ==
    (op = "check_exits")
        => IF active_trade = <<>> THEN ret = <<>>
           ELSE LET t  == active_trade[1]
                    cp == IF t.direction = "UP" THEN args.up_price
                          ELSE args.down_price
                    sl == args.secs_left
                IN  /\ ret \in {<<>>, <<"PARTIAL_TP">>, <<"SL">>, <<"LATE">>}
                    /\ ret = (IF cp <= 1000 THEN <<"SL">>
                              ELSE IF ~t.partial_exit_done /\ cp >= 4700
                              THEN <<"PARTIAL_TP">>
                              ELSE IF sl # <<>> /\ sl[1] <= 30
                                      /\ unrealized_pnl(t, cp) > 0
                              THEN <<"LATE">>
                              ELSE <<>>)

\* the partial-profit threshold was reported with 30 s left and the trade in
\* profit, where the time-based exit applies too
C12_Witness ==
    /\ op = "check_exits"
    /\ active_trade # <<>>
    /\ ~active_trade[1].partial_exit_done
    /\ active_trade[1].direction = "UP"
    /\ args.up_price = 4700
    /\ args.secs_left = <<30>>
    /\ ret = <<"PARTIAL_TP">>

\* C13: the active trade has status OPEN, every closed trade has status WIN,
\* LOSS or CANCELLED, and no Portfolio operation changes a trade that is in
\* closed_trades or makes it the active trade again.
C13_TerminalStatus ==
    [][ /\ active_trade' # <<>> => active_trade'[1].status = "OPEN"
        /\ \A i \in 1..Len(closed_trades') :
              /\ closed_trades'[i].status \in {"WIN", "LOSS", "CANCELLED"}
              /\ active_trade' # <<>> => active_trade'[1].id # closed_trades'[i].id
        /\ Len(closed_trades') >= Len(closed_trades)
        /\ \A i \in 1..Len(closed_trades) :
              /\ closed_trades'[i].id = closed_trades[i].id
              /\ closed_trades'[i].status = closed_trades[i].status
              /\ closed_trades'[i].pnl = closed_trades[i].pnl
              /\ closed_trades'[i].shares_remaining = closed_trades[i].shares_remaining
      ]_vars

\* a won trade is closed and the trade opened after it has run its partial
\* stage
C13_Witness ==
    /\ op = "apply_partial_exit"
    /\ Len(closed_trades) = 1
    /\ closed_trades[1].status = "WIN"
    /\ active_trade # <<>>
    /\ active_trade[1].status = "OPEN"
    /\ active_trade[1].partial_exit_done

\* C14: pnl_history and closed_trades are append-only, and every operation
\* that moves a trade to closed_trades (market close, binary resolution,
\* cancellation) appends exactly one entry, capital - initial_capital, to
\* pnl_history.
C14_PnlHistoryPerClose ==
    [][ /\ Len(closed_trades') >= Len(closed_trades)
        /\ SubSeq(closed_trades', 1, Len(closed_trades)) = closed_trades
        /\ Len(pnl_history') >= Len(pnl_history)
        /\ SubSeq(pnl_history', 1, Len(pnl_history)) = pnl_history
        /\ IF Len(closed_trades') = Len(closed_trades) + 1
           THEN pnl_history' = pnl_history \o <<capital' - initial_capital'>>
           ELSE closed_trades' = closed_trades /\ pnl_history' = pnl_history
      ]_vars

\* C15: the trade counter never decreases, grows by exactly one on an accepted
\* entry and not otherwise, and the ids of the closed trades and of the active
\* trade are strictly increasing in the order the trades were created.
C15_TradeIdsIncrease ==
    [][ /\ trade_counter' >= trade_counter
        /\ trade_counter' = IF op' = "consider_entry" /\ ret' = TRUE
                            THEN trade_counter + 1 ELSE trade_counter
        /\ \A i \in 1..Len(closed_trades') : \A j \in 1..Len(closed_trades') :
              i < j => closed_trades'[i].id < closed_trades'[j].id
        /\ \A i \in 1..Len(closed_trades') :
              /\ closed_trades'[i].id >= 1
              /\ closed_trades'[i].id <= trade_counter'
              /\ active_trade' # <<>> => closed_trades'[i].id < active_trade'[1].id
        /\ active_trade' # <<>> => active_trade'[1].id <= trade_counter'
      ]_vars

\* the second trade of the process has just been opened
C15_Witness ==
    /\ op = "consider_entry"
    /\ ret = TRUE
    /\ trade_counter = 2
    /\ Len(closed_trades) = 1
    /\ closed_trades[1].id = 1
    /\ active_trade # <<>>
    /\ active_trade[1].id = 2

\* C16: once the price has moved the favorable distance from the entry price
\* (here: up to the partial-exit target, where the partial stage ran), a fall
\* of the price back to or below the entry price triggers a stop exit.
C16_BreakevenStop ==
    (/\ op = "check_exits"
     /\ active_trade # <<>>
     /\ active_trade[1].partial_exit_done
     /\ active_trade[1].partial_exit_price[1] >= 4700
     /\ active_trade[1].partial_exit_price[1] > active_trade[1].entry_price
     /\ (IF active_trade[1].direction = "UP" THEN args.up_price
         ELSE args.down_price) <= active_trade[1].entry_price)
        => ret = <<"SL">>

\* C17: in a loop cycle whose book is crossed or has a non-positive best
\* price, neither the entry evaluation opens a trade nor the exit evaluation
\* partially closes or closes one.
C17_InvalidBookSkipped ==
    (/\ cyc.kind \in {"body", "exception"}
     /\ (cyc.up_ask <= cyc.up_bid \/ cyc.up_ask <= 0 \/ cyc.up_bid <= 0))
        => (~cyc.entered /\ cyc.reason = <<>>)

\* C18: with no active trade, check_exits, apply_partial_exit,
\* exit_at_market_price and close_trade return None, cancel_active_trade
\* returns, and none of them changes capital, closed_trades, pnl_history, the
\* trade counter or active_trade.
C18_NoTradeNoAction ==
    [][ (/\ active_trade = <<>>
         /\ op' \in {"check_exits", "apply_partial_exit", "exit_at_market_price",
                     "close_trade", "cancel_active_trade"})
            => /\ ret' = <<>>
               /\ active_trade' = <<>>
               /\ capital' = capital
               /\ closed_trades' = closed_trades
               /\ pnl_history' = pnl_history
               /\ trade_counter' = trade_counter ]_vars

\* exit_at_market_price was called after the only trade had been closed
C18_Witness ==
    /\ op = "exit_at_market_price"
    /\ ret = <<>>
    /\ active_trade = <<>>
    /\ Len(closed_trades) = 1
    /\ Len(pnl_history) = 2
    /\ trade_counter = 1

\* C19: a stats call leaves capital, active_trade, closed_trades, pnl_history
\* and the trade counter as they were, for every portfolio state and prices.
C19_StatsReadOnly ==
    [][ (op' = "stats")
            => /\ capital' = capital
               /\ initial_capital' = initial_capital
               /\ active_trade' = active_trade
               /\ closed_trades' = closed_trades
               /\ pnl_history' = pnl_history
               /\ trade_counter' = trade_counter ]_vars

\* stats was called with a closed trade in the ledger and an open trade past
\* its partial stage, whose equity differs from capital
C19_Witness ==
    /\ op = "stats"
    /\ ret # <<>>
    /\ ret[1].total_trades = 1
    /\ Len(closed_trades) = 1
    /\ active_trade # <<>>
    /\ active_trade[1].partial_exit_done
    /\ ret[1].capital = capital
    /\ ret[1].equity # capital

\* C20: capital is >= 0 in every reachable state, after any sequence of
\* entries, partial exits, market closes, binary resolutions and
\* cancellations at prices in [0, 1].
C20_CapitalNonNegative == capital >= 0

\* C21: a trade entered at 0.10 with a bet of 1.00 holds 10.0 shares and
\* paid an entry fee of 0.005625; with no partial exit, its binary
\* resolution as a win (exit price 1.0, exit fee 0) yields
\* pnl = round(10.0 - 1.00 - entry_fee, 4) = 8.9944, and as a loss
\* pnl = round(-1.00 - entry_fee, 4) = -1.0056.
C21_BinaryScenario ==
    (op = "close_binary" /\ args.trade.entry_price = 1000 /\ args.trade.bet_size = Scale) =>
        /\ args.trade.shares = 10 * Scale
        /\ args.trade.entry_fee = 5625
        /\ ~args.trade.partial_exit_done
        /\ ret.exit_fee = 0
        /\ ret.exit_price = Some(IF args.won THEN Scale ELSE 0)
        /\ ret.pnl = Some(A8Round(A8Sub(A8OfMoney((IF args.won THEN 10 * Scale ELSE 0) - Scale),
                                        A8(0, args.trade.entry_fee * 100))))
        /\ ret.pnl = Some(IF args.won THEN 89944 ELSE -10056)

\* the scenario is resolved as a win and yields 8.9944
C21_Witness ==
    /\ op = "close_binary"
    /\ args.trade.entry_price = 1000
    /\ args.trade.bet_size = Scale
    /\ args.won
    /\ ret.status = "WIN"
    /\ ret.pnl = Some(89944)

\* C21 as stated: the win of the scenario yields approximately 8.9375 (to
\* the four places the program keeps) and the loss approximately -1.0056
C21_AsStated ==
    (op = "close_binary" /\ args.trade.entry_price = 1000 /\ args.trade.bet_size = Scale) =>
        ret.pnl = Some(IF args.won THEN 89375 ELSE -10056)

\* C22: the window never holds more than WINDOW_SIZE entries; an append to
\* a full window drops exactly the oldest entry and keeps the others in
\* arrival order, an append to a shorter one keeps them all; and an
\* iteration on a market other than the last one starts from an empty
\* window.
C22_RollingWindow ==
    [][ LET prior == IF last_market_id' # last_market_id THEN <<>> ELSE obi_window
        IN  /\ Len(obi_window') <= WINDOW_SIZE
            /\ op' = "compute_signal" =>
                   obi_window' = IF Len(prior) = WINDOW_SIZE
                                 THEN Append(Tail(prior), args'.combined_obi)
                                 ELSE Append(prior, args'.combined_obi)
            /\ op' # "compute_signal" => obi_window' = prior ]_vars

\* a reading was appended to a full window whose oldest entry differed from it
C22_Witness ==
    /\ op = "compute_signal"
    /\ cyc.kind = "signal"
    /\ cyc.was_full
    /\ ~cyc.new_cycle
    /\ Len(obi_window) = WINDOW_SIZE
    /\ obi_window[1] # obi_window[WINDOW_SIZE]

\* C23: the smoothed value of an iteration does not depend on the reading
\* the iteration has just appended: with the same earlier entries, any other
\* current reading gives the same smoothed value.
C23_SmoothedIgnoresCurrent ==
    op = "compute_signal" =>
        \A c2 \in SignalReadings :
            compute_signal(c2,
                           Append(SubSeq(args.obi_window, 1, Len(args.obi_window) - 1), c2),
                           OBI_THRESHOLD, None, None, None).obi_ema = ret.obi_ema

\* C24: the smoothed value of a window of n >= 1 equal entries c is c.
C24_ConstantWindow ==
    (/\ op = "compute_signal"
     /\ args.obi_window # <<>>
     /\ \A i \in 1..Len(args.obi_window) : args.obi_window[i] = args.obi_window[1]) =>
        ret.obi_ema = args.obi_window[1]

\* the window [0.2, 0.2, 0.2] is smoothed to 0.2
C24_Witness ==
    /\ op = "compute_signal"
    /\ args.obi_window = <<2000, 2000, 2000>>
    /\ ret.obi_ema = 2000

\* C25: for a book with non-negative sizes, obi is within [-1, 1], and it is
\* 0 when the bid volume and the ask volume are both zero.
C25_ObiRange ==
    op = "get_order_book_metrics" =>
        /\ -Scale <= ret.obi /\ ret.obi <= Scale
        /\ (SumSize(args.ob.bids) = 0 /\ SumSize(args.ob.asks) = 0) => ret.obi = 0

\* a book with asks only has obi = -1
C25_Witness ==
    /\ op = "get_order_book_metrics"
    /\ SumSize(args.ob.bids) = 0
    /\ SumSize(args.ob.asks) > 0
    /\ ret.obi = -Scale

\* C26: when both sides of the book have positive volume, vwap_mid is
\* within [best_bid, best_ask].
C26_VwapMidBetweenBest ==
    (/\ op = "get_order_book_metrics"
     /\ ret.bid_volume > 0
     /\ ret.ask_volume > 0) =>
        ret.best_bid <= ret.vwap_mid /\ ret.vwap_mid <= ret.best_ask

\* C27: compute_combined_obi returns a value in [-1, 1]: up.obi unchanged in
\* degraded mode, 0 when the two books have no volume, and otherwise
\* (up.obi * up.volume - down.obi * down.volume) / (up.volume + down.volume)
\* to the four places the program keeps.
C27_CombinedObi ==
    op = "compute_combined_obi" =>
        /\ -Scale <= ret /\ ret <= Scale
        /\ args.down_ob = None => ret = args.up_ob.obi
        /\ args.down_ob # None =>
               LET up   == args.up_ob
                   down == args.down_ob[1]
               IN  IF up.total_volume + down.total_volume = 0 THEN ret = 0
                   ELSE ret = RoundDiv(up.obi * up.total_volume - down.obi * down.total_volume,
                                       up.total_volume + down.total_volume)

\* two books with volume and opposite imbalances combine to a nonzero value
C27_Witness ==
    /\ op = "compute_combined_obi"
    /\ args.down_ob # None
    /\ args.up_ob.total_volume > 0
    /\ args.down_ob[1].total_volume > 0
    /\ args.up_ob.obi > 0
    /\ args.down_ob[1].obi < 0
    /\ ret > args.up_ob.obi

\* C28: the penalty is 1 when the UP book's spread_pct is at most 0.08 and
\* max(0.3, 1 - (spread_pct - 0.08) * 5) otherwise, so it is within
\* [0.3, 1]; the score returned is the fused score times the penalty, that
\* is times 0.8 for spread_pct = 0.12.
C28_SpreadPenalty ==
    (op = "compute_signal" /\ args.up_ob # None) =>
        LET sp      == args.up_ob[1].spread_pct
            linear  == Scale - (sp - 800) * 5
            penalty == IF sp <= 800 THEN Scale
                       ELSE IF linear > 3000 THEN linear ELSE 3000
            fused   == IF ret.price_available
                       THEN RoundDiv(35 * ret.obi_component + 30 * ret.mom_component
                                       + 35 * ret.div_component, 100)
                       ELSE ret.obi_component
        IN  /\ ret.spread_penalty = penalty
            /\ 3000 <= ret.spread_penalty /\ ret.spread_penalty <= Scale
            /\ ret.combined = RoundDiv(fused * penalty, Scale)
            /\ sp = 1200 => ret.combined = RoundDiv(fused * 8, 10)

\* a nonzero score was multiplied by 0.8
C28_Witness ==
    /\ op = "compute_signal"
    /\ args.up_ob # None
    /\ args.up_ob[1].spread_pct = 1200
    /\ ret.spread_penalty = 8000
    /\ ret.combined # 0
    /\ ret.combined # ret.obi_component

\* C29: confirmed is true exactly when a momentum snapshot is available and
\* the OBI component and the momentum component have the same nonzero sign;
\* the effective threshold is 0.75 times the configured one when confirmed
\* and the configured one otherwise.
C29_Confirmation ==
    op = "compute_signal" =>
        /\ ret.confirmed <=>
               /\ args.price_snap # None
               /\ args.price_snap[1].available
               /\ \/ ret.obi_component > 0 /\ ret.mom_component > 0
                  \/ ret.obi_component < 0 /\ ret.mom_component < 0
        /\ ret.effective_threshold * 100 = ret.threshold * (IF ret.confirmed THEN 75 ELSE 100)

\* a confirmed signal, classified against 0.135
C29_Witness ==
    /\ op = "compute_signal"
    /\ ret.confirmed
    /\ ret.obi_component < 0
    /\ ret.effective_threshold = 1350

\* C30: with t the effective threshold, a score above t is labelled UP, or
\* STRONG UP if above 1.8 t; a score below -t is labelled DOWN, or STRONG DOWN
\* if below -1.8 t; every other score, t and -t included, is labelled NEUTRAL.
C30_Classification ==
    op = "compute_signal" =>
        LET t == ret.effective_threshold
            c == ret.combined
        IN  ret.label = IF c > t THEN (IF c * 10 > t * 18 THEN "STRONG UP" ELSE "UP")
                        ELSE IF c < -t THEN (IF c * 10 < -(t * 18) THEN "STRONG DOWN" ELSE "DOWN")
                        ELSE "NEUTRAL"

\* a score exactly at the negative threshold is NEUTRAL
C30_Witness ==
    /\ op = "compute_signal"
    /\ ret.combined = -ret.effective_threshold
    /\ ret.label = "NEUTRAL"

\* C31: with a positive threshold, the confidence of a signal lies in
\* [0, 100] and is at most 97: it is 50 for NEUTRAL and, for a directional
\* label, int(55 + |combined| / threshold * 30), plus 8 when confirmed, capped
\* at 97.
C31_Confidence ==
    (op = "compute_signal" /\ ret.threshold > 0)
        => LET abs_c == IF ret.combined < 0 THEN -ret.combined ELSE ret.combined
               base  == 55 + (abs_c * 30) \div ret.threshold
               bonus == IF ret.confirmed THEN 8 ELSE 0
           IN  /\ ret.confidence >= 0
               /\ ret.confidence <= 100
               /\ ret.confidence <= 97
               /\ IF ret.label = "NEUTRAL" THEN ret.confidence = 50
                  ELSE /\ ret.label \in {"UP", "STRONG UP", "DOWN", "STRONG DOWN"}
                       /\ ret.confidence = (IF base + bonus > 97 THEN 97 ELSE base + bonus)

\* a confirmed directional signal whose base value plus the bonus is above the
\* cap
C31_Witness ==
    /\ op = "compute_signal"
    /\ ret.threshold > 0
    /\ ret.label = "STRONG DOWN"
    /\ ret.confirmed
    /\ 55 + ((-ret.combined) * 30) \div ret.threshold + 8 > 97
    /\ ret.confidence = 97

\* C32: in a loop iteration with a fetched book, when a trade is open as the
\* exits are evaluated, the time remaining is known and positive and the price
\* of the trade's side is at or below 0.10, the iteration closes all the
\* shares the trade still holds by a market-style close with exit reason SL,
\* whether or not the partial stage has run.
C32_LoopStopLoss ==
    [][ (/\ active_trade # <<>>
         /\ last_market_id' = last_market_id
         /\ cyc'.kind \in {"body", "exception"}
         /\ market_info' # <<>>
         /\ market_info'[1].has_end
         /\ time_left' > 0
         /\ (IF active_trade[1].direction = "UP" THEN market_info'[1].up_price
             ELSE market_info'[1].down_price) <= 1000)
            => /\ Len(closed_trades') = Len(closed_trades) + 1
               /\ LET t == active_trade[1]
                      c == closed_trades'[Len(closed_trades')]
                  IN  /\ c.id = t.id
                      /\ c.exit_reason = <<"SL">>
                      /\ c.status \in {"WIN", "LOSS"}
                      /\ c.exit_price # <<>>
                      /\ c = close_market(t, c.exit_price[1], "SL")
                      /\ active_trade' # <<>> => active_trade'[1].id # t.id
                      /\ cyc'.reason = <<"SL">> ]_vars

\* an iteration stopped out, at a side price of 0.09 with time left, a trade
\* whose partial stage had run
C32_Witness ==
    /\ op = "loop"
    /\ cyc.kind = "body"
    /\ cyc.reason = <<"SL">>
    /\ cyc.secs_left # <<>>
    /\ cyc.secs_left[1] > 0
    /\ market_info # <<>>
    /\ market_info[1].up_price = 900
    /\ closed_trades # <<>>
    /\ closed_trades[Len(closed_trades)].direction = "UP"
    /\ closed_trades[Len(closed_trades)].partial_exit_done
    /\ closed_trades[Len(closed_trades)].exit_reason = <<"SL">>
    /\ closed_trades[Len(closed_trades)].shares_remaining
          < closed_trades[Len(closed_trades)].shares

\* C33: the equity stats(up_price, down_price) reports for a portfolio with an
\* open trade equals the capital the portfolio holds after closing that trade
\* at the same prices with exit_at_market_price, before and after the partial
\* stage.
C33_EquityIsCapitalAfterClose ==
    (op = "stats" /\ active_trade # <<>>)
        => ret[1].equity
              = exit_at_market_price(PF, args.up_price, args.down_price,
                                     "SL", <<>>).pf.capital

\* C34: for every accepted entry, shares * entry_price equals bet_size up to
\* rounding (here: to within a cent), when the shares come from the
\* top-of-book price and when the depth walk's average price and shares are
\* used, a depth walk that fills only part of the bet included.
C34_CommittedMatchesPosition ==
    (op = "loop_entry" /\ ret.ret)
        => LET t    == ret.pf.active_trade[1]
               diff == t.shares * t.entry_price - t.bet_size * 10000
           IN  diff <= 1000000 /\ diff >= -1000000

\* C35: a trade settled by binary resolution has the status of its
\* resolution: LOSS when it was liquidated at exit price 0.0 and WIN when it
\* was liquidated at exit price 1.0, with or without a partial stage before.
C35_StatusMatchesResolution ==
    \A i \in 1..Len(closed_trades) :
        closed_trades[i].exit_reason = <<"EXPIRE">>
            => /\ closed_trades[i].exit_price = <<0>> => closed_trades[i].status = "LOSS"
               /\ closed_trades[i].exit_price = <<10000>> => closed_trades[i].status = "WIN"

C37_TradeEventuallyClosed ==
    (active_trade # <<>>) ~> (active_trade = <<>>)

\* an open trade was closed by the emergency close of an iteration with 4
\* seconds left in which no exit applied
C37_Witness ==
    /\ op = "loop"
    /\ active_trade = <<>>
    /\ cyc.kind = "body"
    /\ cyc.reason = <<>>
    /\ ~cyc.entered
    /\ cyc.secs_left = <<4>>
    /\ closed_trades # <<>>
    /\ closed_trades[Len(closed_trades)].exit_reason = <<"EXPIRE">>

\* the prices of the iteration whose observations are c
ObservedPrices(c) ==
    { px \in { LoopPrices(get_order_book_metrics(ub),
                          IF db = None THEN None
                          ELSE Some(get_order_book_metrics(db[1]))) :
               ub \in UpBooks, db \in DownBooks } :
        Observation(px, c.secs_left, c.reason, c.entered) = [c EXCEPT !.kind = "body"] }

\* an iteration on the market of the iteration before that fetched the book,
\* ran to its end and saw a known time remaining below EMERGENCY_SECS, with a
\* trade open at its start
LastSecondsIteration ==
    /\ active_trade # <<>>
    /\ last_market_id' = last_market_id
    /\ cyc'.kind = "body"
    /\ cyc'.secs_left # <<>>
    /\ cyc'.secs_left[1] < EMERGENCY_SECS

\* the trade open at the start of the step was settled in it by binary
\* resolution, as a win exactly when the price of its side was at least 0.5
SettledBinary ==
    /\ Len(closed_trades') = Len(closed_trades) + 1
    /\ LET t == active_trade[1]
           c == closed_trades'[Len(closed_trades')]
       IN  /\ c.id = t.id
           /\ c.exit_reason = <<"EXPIRE">>
           /\ c.exit_price \in {<<0>>, <<Scale>>}
           /\ ObservedPrices(cyc') # {}
           /\ \A px \in ObservedPrices(cyc') :
                  (c.exit_price = <<Scale>>)
                      <=> ((IF t.direction = "UP" THEN px.up_price
                            ELSE px.down_price) >= Scale \div 2)

\* C38 (as stated): at the end of every completed iteration with a known time
\* remaining below 5 seconds no trade is open, the trade that was open having
\* been settled by binary resolution, as a win exactly when the current price
\* of its side is at least 0.5.
C38_AsStated ==
    [][ LastSecondsIteration => (active_trade' = <<>> /\ SettledBinary) ]_vars

\* C38: at the end of every completed iteration with a known time remaining
\* below 5 seconds no trade is open.  When the time remaining is positive and
\* check_exits gave SL or LATE, the trade that was open was closed by that
\* exit at the market price; in every other case it was settled by binary
\* resolution, as a win exactly when the current price of its side is at
\* least 0.5.
C38_NoTradeThroughLastSeconds ==
    [][ LastSecondsIteration
            => /\ active_trade' = <<>>
               /\ IF cyc'.reason \in {<<"SL">>, <<"LATE">>}
                  THEN /\ cyc'.secs_left[1] > 0
                       /\ Len(closed_trades') = Len(closed_trades) + 1
                       /\ closed_trades'[Len(closed_trades')].id = active_trade[1].id
                       /\ closed_trades'[Len(closed_trades')].exit_reason = cyc'.reason
                  ELSE SettledBinary ]_vars

\* an iteration with no time left settled an open trade as won
C38_Witness ==
    /\ op = "loop"
    /\ cyc.kind = "body"
    /\ cyc.secs_left = <<0>>
    /\ active_trade = <<>>
    /\ closed_trades # <<>>
    /\ closed_trades[Len(closed_trades)].exit_reason = <<"EXPIRE">>
    /\ closed_trades[Len(closed_trades)].exit_price = <<Scale>>
    /\ closed_trades[Len(closed_trades)].status = "WIN"

\* C39: when an iteration starts a new market cycle while a trade entered in
\* the previous market is still open, the trade is settled by binary
\* resolution on the prices of the market it was entered in: it is won exactly
\* when the last price of its side seen in that market is at least 0.5.  The
\* trade is still open at a new cycle after an iteration whose partial exit
\* raised; cyc holds the prices that iteration saw.
C39_SettledAtOwnMarketPrices ==
    [][ (/\ active_trade # <<>>
         /\ cyc.kind = "exception"
         /\ cyc.reason # <<>>
         /\ last_market_id' # last_market_id)
            => /\ Len(closed_trades') >= Len(closed_trades) + 1
               /\ LET t == active_trade[1]
                      c == closed_trades'[Len(closed_trades) + 1]
                  IN  /\ c.id = t.id
                      /\ c.exit_reason = <<"EXPIRE">>
                      /\ ObservedPrices(cyc) # {}
                      /\ \A px \in ObservedPrices(cyc) :
                             (c.exit_price = <<Scale>>)
                                 <=> ((IF t.direction = "UP" THEN px.up_price
                                       ELSE px.down_price) >= Scale \div 2) ]_vars

====
